---------------------------- MODULE Spec2Model ----------------------------
(***************************************************************************)
(* A model of the gumbo HTML5 parser core: the UTF-8 input cursor          *)
(* (src/src/utf8.c), the diagnostics list (src/src/error.c), the           *)
(* character-reference resolver (the char_ref.rl text held in              *)
(* src/src/arena.c) and the parent/child bookkeeping of the output tree.   *)
(*                                                                         *)
(* Pointers into the input buffer are byte offsets from its first byte:    *)
(* 0 is `source`, Len(input) is `source + source_length` (iter->_end).     *)
(***************************************************************************)
EXTENDS Integers, Sequences, FiniteSets, TLC

VARIABLES
  input,      \* the input buffer: a sequence of bytes (0..255)
  options,    \* GumboOptions: [max_errors, tab_stop]
  iter,       \* Utf8Iterator: [start, width, current, pos, mark, mark_pos]
  errors,     \* parser->_output->errors, a sequence of GumboError records
  raised,     \* history variable: number of gumbo_add_error calls so far
  ret,        \* the last operation on the cursor and what it returned
  token_start,\* tokenizer: char pointer at the start of the current token
  node_text,  \* original_text slice of the last text node produced
  children,   \* tree: node -> sequence of child nodes
  parent,     \* tree: node -> parent node (NoNode when detached)
  index_within_parent, \* tree: node -> index in the parent's children, or -1
  lookup_name,\* tag lookup: the name passed to or returned by the last call
  lookup,     \* tag lookup: the last call, its GumboTag argument and result
  marked,     \* history variable: the iterator when utf8iterator_mark was last called
  arenas,     \* parse -> its GumboArena [head, allocation_ptr] and life cycle
  heap,       \* chunk -> [state, next]: the blocks malloc() hands out
  gChunksAllocated, \* the counter of arena.c, one for the whole process
  owned,      \* history variable: parse -> chunks obtained since arena_init
  arena_ret,  \* the last arena operation and what it returned
  blocks,     \* history variable: parse -> the blocks its arena handed out
  entity,     \* kNamedEntities: the entry examined and what was found
  caret,      \* the last gumbo_caret_diagnostic_to_string call and its output
  string_buffer \* a GumboStringBuffer, the last call on it and its result

vars == << input, options, iter, errors, raised, ret, token_start, node_text,
           children, parent, index_within_parent,
           lookup_name, lookup, marked,
           arenas, heap, gChunksAllocated, owned, arena_ret, blocks,
           entity, caret, string_buffer >>

cursorVars == << input, options, iter, errors, raised, ret, token_start,
                 node_text, marked >>
treeVars == << children, parent, index_within_parent >>
lookupVars == << lookup_name, lookup >>
arenaVars == << arenas, heap, gChunksAllocated, owned, arena_ret, blocks >>
auxVars == << arenaVars, entity, caret, string_buffer >>

---------------------------------------------------------------------------
(* Program constants.                                                      *)

kGumboNoChar == -1
kUtf8ReplacementChar == 65533
UTF8_ACCEPT == 0
UTF8_REJECT == 12

INT_MAX == 2147483647

\* ASCII codes used by the code as character literals.
CH_TAB == 9
CH_LF == 10
CH_FF == 12
CH_CR == 13
CH_SPACE == 32
CH_HASH == 35
CH_AMP == 38
CH_SEMI == 59
CH_LT == 60
CH_EQ == 61

EofChar == -1

---------------------------------------------------------------------------
(* The Hoehrmann DFA tables of utf8.c: byte -> character class, and        *)
(* (state + class) -> state.                                               *)

utf8d_class ==
  << 0,0,0,0,0,0,0,0,0,0,0,0,0,0,0,0,  0,0,0,0,0,0,0,0,0,0,0,0,0,0,0,0,
     0,0,0,0,0,0,0,0,0,0,0,0,0,0,0,0,  0,0,0,0,0,0,0,0,0,0,0,0,0,0,0,0,
     0,0,0,0,0,0,0,0,0,0,0,0,0,0,0,0,  0,0,0,0,0,0,0,0,0,0,0,0,0,0,0,0,
     0,0,0,0,0,0,0,0,0,0,0,0,0,0,0,0,  0,0,0,0,0,0,0,0,0,0,0,0,0,0,0,0,
     1,1,1,1,1,1,1,1,1,1,1,1,1,1,1,1,  9,9,9,9,9,9,9,9,9,9,9,9,9,9,9,9,
     7,7,7,7,7,7,7,7,7,7,7,7,7,7,7,7,  7,7,7,7,7,7,7,7,7,7,7,7,7,7,7,7,
     8,8,2,2,2,2,2,2,2,2,2,2,2,2,2,2,  2,2,2,2,2,2,2,2,2,2,2,2,2,2,2,2,
     10,3,3,3,3,3,3,3,3,3,3,3,3,4,3,3, 11,6,6,6,5,8,8,8,8,8,8,8,8,8,8,8 >>

utf8d_trans ==
  << 0,12,24,36,60,96,84,12,12,12,48,72, 12,12,12,12,12,12,12,12,12,12,12,12,
     12, 0,12,12,12,12,12, 0,12, 0,12,12, 12,24,12,12,12,12,12,24,12,24,12,12,
     12,12,12,12,12,12,12,24,12,12,12,12, 12,24,12,12,12,12,12,12,12,24,12,12,
     12,12,12,12,12,12,12,36,12,36,12,12, 12,36,12,12,12,12,12,36,12,36,12,12,
     12,36,12,12,12,12,12,12,12,12,12,12 >>

\* decode(): one step of the DFA.  (0xff >> type) & byte keeps the low
\* 8 - type bits of the byte (none when type > 8); (byte & 0x3f) | (codep << 6)
\* appends six payload bits (the DFA rejects before a fifth byte, so the
\* uint32_t never holds more than 21 bits).
decode_type(state, codep, byte, type) ==
  [state |-> utf8d_trans[state + type + 1],
   codep |-> IF state # UTF8_ACCEPT
               THEN (byte % 64) + codep * 64
               ELSE IF type <= 8 THEN byte % (2 ^ (8 - type)) ELSE 0]

decode(state, codep, byte) ==
  decode_type(state, codep, byte, utf8d_class[byte + 1])

\* c & 0xFFFF for an int c (two's complement).
Low16(c) == c % 65536

\* A faulty variant of utf8_is_invalid_code_point: the range
\* U+FDD0..U+FDEF is missing.
utf8_is_invalid_code_point_no_fdd0(c) ==
  \/ (c >= 1 /\ c <= 8)
  \/ c = 11
  \/ (c >= 14 /\ c <= 31)
  \/ (c >= 127 /\ c <= 159)
  \/ Low16(c) = 65534
  \/ Low16(c) = 65535

utf8_is_invalid_code_point(c) ==
  \/ (c >= 1 /\ c <= 8)
  \/ c = 11
  \/ (c >= 14 /\ c <= 31)
  \/ (c >= 127 /\ c <= 159)
  \/ (c >= 64976 /\ c <= 65007)
  \/ Low16(c) = 65534
  \/ Low16(c) = 65535

---------------------------------------------------------------------------
(* Diagnostics (error.c).  A machine value m = [it, errs, raised,           *)
(* max_errors] carries the iterator, the errors vector, the count of       *)
(* gumbo_add_error calls and the max_errors option of the parser through   *)
(* the operators below.                                                    *)

end == Len(input)

NoText == [data |-> 0, length |-> 0]

\* A faulty variant of gumbo_add_error: the cap compared with > for >=.
gumbo_add_error_off_by_one(m) ==
  ~(m.max_errors >= 0 /\ Len(m.errs) > m.max_errors)

\* gumbo_add_error(): TRUE when it allocates and appends a record, FALSE
\* when it returns NULL because the cap is reached.
gumbo_add_error(m) ==
  ~(m.max_errors >= 0 /\ Len(m.errs) >= m.max_errors)

\* A faulty variant of the callers of gumbo_add_error: at the cap the new
\* record takes the place of the last one.
RecordError_keep_last(m, e) ==
  [m EXCEPT !.raised = @ + 1,
            !.errs = IF gumbo_add_error(m) THEN Append(@, e)
                     ELSE IF Len(@) > 0
                       THEN Append(SubSeq(@, 1, Len(@) - 1), e)
                     ELSE @]

\* A caller of gumbo_add_error filling the record it got (or returning at
\* once when it got NULL).
RecordError(m, e) ==
  [m EXCEPT !.raised = @ + 1,
            !.errs = IF gumbo_add_error(m) THEN Append(@, e) ELSE @]

\* The raw value of the `width` bytes at `from`, as add_error builds it in a
\* uint64_t: given here as its bytes, most significant first.
RawBytes(from, width) == SubSeq(input, from + 1, from + width)

\* A faulty variant of add_error: original_text taken after the bytes under
\* the cursor instead of at them.
add_error_past_char(m, type) ==
  RecordError(m, [type |-> type,
                  position |-> m.it.pos,
                  original_text |-> m.it.start + m.it.width,
                  codepoint |-> 0,
                  raw |-> RawBytes(m.it.start, m.it.width),
                  text |-> NoText])

\* add_error() of utf8.c: position and original_text are those of the
\* iterator, the payload (v.codepoint, here `raw`) is the raw bytes under the
\* cursor.  The fields of the union v that a diagnostic does not set are 0,
\* << >> and NoText.
add_error(m, type) ==
  RecordError(m, [type |-> type,
                  position |-> m.it.pos,
                  original_text |-> m.it.start,
                  codepoint |-> 0,
                  raw |-> RawBytes(m.it.start, m.it.width),
                  text |-> NoText])

---------------------------------------------------------------------------
(* The UTF-8 iterator (utf8.c).                                            *)

RECURSIVE read_char_loop(_, _, _, _), read_char_decoded(_, _, _)

\* A faulty variant of the body of the loop: the LF after a CR is skipped but
\* the offset is not moved with it.
read_char_decoded_offset_lags(m, c, d) ==
  IF d.state = UTF8_ACCEPT THEN
    LET crlf == d.codep = CH_CR /\ c + 1 < end /\ input[c + 2] = CH_LF
        s == [m EXCEPT !.it.width = c - m.it.start + 1,
                       !.it.start = IF crlf THEN @ + 1 ELSE @]
        cp == IF d.codep = CH_CR THEN CH_LF ELSE d.codep
    IN IF utf8_is_invalid_code_point(cp)
         THEN [add_error(s, "UTF8_INVALID")
                 EXCEPT !.it.current = kUtf8ReplacementChar]
         ELSE [s EXCEPT !.it.current = cp]
  ELSE IF d.state = UTF8_REJECT THEN
    add_error([m EXCEPT !.it.width = (c - m.it.start)
                                       + (IF c = m.it.start THEN 1 ELSE 0),
                        !.it.current = kUtf8ReplacementChar],
              "UTF8_INVALID")
  ELSE read_char_loop(m, c + 1, d.state, d.codep)

\* A faulty variant of the body of the loop: a CR becomes LF but the LF that
\* follows it is not skipped.
read_char_decoded_keep_lf(m, c, d) ==
  IF d.state = UTF8_ACCEPT THEN
    LET s == [m EXCEPT !.it.width = c - m.it.start + 1]
        cp == IF d.codep = CH_CR THEN CH_LF ELSE d.codep
    IN IF utf8_is_invalid_code_point(cp)
         THEN [add_error(s, "UTF8_INVALID")
                 EXCEPT !.it.current = kUtf8ReplacementChar]
         ELSE [s EXCEPT !.it.current = cp]
  ELSE IF d.state = UTF8_REJECT THEN
    add_error([m EXCEPT !.it.width = (c - m.it.start)
                                       + (IF c = m.it.start THEN 1 ELSE 0),
                        !.it.current = kUtf8ReplacementChar],
              "UTF8_INVALID")
  ELSE read_char_loop(m, c + 1, d.state, d.codep)

\* The body of the loop of read_char for the byte at c: d is what decode()
\* left in state and code_point.
read_char_decoded(m, c, d) ==
  IF d.state = UTF8_ACCEPT THEN
    LET crlf == d.codep = CH_CR /\ c + 1 < end /\ input[c + 2] = CH_LF
        s == [m EXCEPT !.it.width = c - m.it.start + 1,
                       !.it.start = IF crlf THEN @ + 1 ELSE @,
                       !.it.pos.offset = IF crlf THEN @ + 1 ELSE @]
        cp == IF d.codep = CH_CR THEN CH_LF ELSE d.codep
    IN IF utf8_is_invalid_code_point(cp)
         THEN [add_error(s, "UTF8_INVALID")
                 EXCEPT !.it.current = kUtf8ReplacementChar]
         ELSE [s EXCEPT !.it.current = cp]
  ELSE IF d.state = UTF8_REJECT THEN
    add_error([m EXCEPT
                 !.it.width = (c - m.it.start)
                              + (IF c = m.it.start THEN 1 ELSE 0),
                 !.it.current = kUtf8ReplacementChar],
              "UTF8_INVALID")
  ELSE read_char_loop(m, c + 1, d.state, d.codep)

\* A faulty variant of the loop of read_char: at the end of the input in the
\* middle of a sequence the width is set to one byte, not to the rest of the
\* input.
read_char_loop_one_byte(m, c, state, code_point) ==
  IF c >= end
    THEN add_error([m EXCEPT !.it.current = kUtf8ReplacementChar,
                             !.it.width = 1],
                   "UTF8_TRUNCATED")
    ELSE read_char_decoded(m, c, decode(state, code_point, input[c + 1]))

read_char_loop(m, c, state, code_point) ==
  IF c >= end
    THEN \* ran off the end inside a sequence: truncated input
         add_error([m EXCEPT !.it.current = kUtf8ReplacementChar,
                             !.it.width = end - m.it.start],
                   "UTF8_TRUNCATED")
    ELSE read_char_decoded(m, c, decode(state, code_point, input[c + 1]))

read_char(m) ==
  IF m.it.start >= end
    THEN [m EXCEPT !.it.current = EofChar, !.it.width = 0]
    ELSE read_char_loop(m, m.it.start, UTF8_ACCEPT, 0)

\* A faulty variant of update_position: a TAB rounds the column up to a tab
\* stop, so a column already on a tab stop does not move.
update_position_round_up(it) ==
  LET p == [it.pos EXCEPT !.offset = @ + it.width] IN
  [it EXCEPT !.pos =
     IF it.current = CH_LF
       THEN [p EXCEPT !.line = @ + 1, !.column = 1]
     ELSE IF it.current = CH_TAB
       THEN [p EXCEPT !.column =
               ((p.column + options.tab_stop - 1) \div options.tab_stop)
                 * options.tab_stop]
     ELSE IF it.current # EofChar
       THEN [p EXCEPT !.column = @ + 1]
     ELSE p]

\* A faulty variant of update_position: the end of the input counts as a
\* character of the line.
update_position_count_eof(it) ==
  LET p == [it.pos EXCEPT !.offset = @ + it.width] IN
  [it EXCEPT !.pos =
     IF it.current = CH_LF
       THEN [p EXCEPT !.line = @ + 1, !.column = 1]
     ELSE IF it.current = CH_TAB
       THEN [p EXCEPT !.column =
               ((p.column \div options.tab_stop) + 1) * options.tab_stop]
     ELSE [p EXCEPT !.column = @ + 1]]

update_position(it) ==
  LET p == [it.pos EXCEPT !.offset = @ + it.width] IN
  [it EXCEPT !.pos =
     IF it.current = CH_LF
       THEN [p EXCEPT !.line = @ + 1, !.column = 1]
     ELSE IF it.current = CH_TAB
       THEN [p EXCEPT !.column =
               ((p.column \div options.tab_stop) + 1) * options.tab_stop]
     ELSE IF it.current # EofChar
       THEN [p EXCEPT !.column = @ + 1]
     ELSE p]

\* utf8iterator_init(): _mark and _mark_pos are not set by the code; the
\* model starts them at the start of the buffer.
utf8iterator_init_with(max_errors) ==
  read_char([it |-> [start |-> 0, width |-> 0, current |-> EofChar,
                     pos |-> [line |-> 1, column |-> 1, offset |-> 0],
                     mark |-> 0,
                     mark_pos |-> [line |-> 1, column |-> 1, offset |-> 0]],
             errs |-> << >>,
             raised |-> 0,
             max_errors |-> max_errors])

utf8iterator_init == utf8iterator_init_with(options.max_errors)

utf8iterator_next(m) ==
  LET it1 == update_position(m.it) IN
  read_char([m EXCEPT !.it = [it1 EXCEPT !.start = @ + it1.width]])

utf8iterator_current(m) == m.it.current

utf8iterator_get_char_pointer(m) == m.it.start

utf8iterator_mark(m) ==
  [m EXCEPT !.it.mark = m.it.start, !.it.mark_pos = m.it.pos]

utf8iterator_reset_keep_pos(m) ==
  read_char([m EXCEPT !.it.start = m.it.mark])

utf8iterator_reset(m) ==
  read_char([m EXCEPT !.it.start = m.it.mark, !.it.pos = m.it.mark_pos])

\* utf8iterator_fill_error_at_mark() applied to a record obtained from
\* gumbo_add_error; `type`, `codepoint` and `text` are set by the caller.
fill_error_at_mark(m, type, codepoint, text) ==
  RecordError(m, [type |-> type,
                  position |-> m.it.mark_pos,
                  original_text |-> m.it.mark,
                  codepoint |-> codepoint,
                  raw |-> << >>,
                  text |-> text])

\* strncmp(iter->_start, prefix, length) == 0 for a prefix without NUL.
PrefixMatches(m, prefix, length) ==
  /\ m.it.start + length <= end
  /\ \A i \in 1..length : input[m.it.start + i] = prefix[i]

RECURSIVE NextTimes(_, _)
NextTimes(m, n) == IF n = 0 THEN m ELSE NextTimes(utf8iterator_next(m), n - 1)

\* utf8iterator_maybe_consume_match(), case-sensitive: [m, matched].
utf8iterator_maybe_consume_match(m, prefix, length) ==
  IF PrefixMatches(m, prefix, length)
    THEN [m |-> NextTimes(m, length), matched |-> TRUE]
    ELSE [m |-> m, matched |-> FALSE]

---------------------------------------------------------------------------
(* The patterns of the Ragel scanner valid_named_ref, in source order: the  *)
(* bytes of the name, the value its action stores in output->first and the *)
(* value it stores in output->second (kGumboNoChar when the action does not *)
(* assign output->second).                                                 *)

valid_named_ref ==
  <<
  [name |-> <<65,69,108,105,103>>, first |-> 198, second |-> -1], \* 'AElig'
  [name |-> <<65,77,80,59>>, first |-> 38, second |-> -1], \* 'AMP;'
  [name |-> <<65,77,80>>, first |-> 38, second |-> -1], \* 'AMP'
  [name |-> <<65,97,99,117,116,101,59>>, first |-> 193, second |-> -1], \* 'Aacute;'
  [name |-> <<65,97,99,117,116,101>>, first |-> 193, second |-> -1], \* 'Aacute'
  [name |-> <<65,98,114,101,118,101,59>>, first |-> 258, second |-> -1], \* 'Abreve;'
  [name |-> <<65,99,105,114,99,59>>, first |-> 194, second |-> -1], \* 'Acirc;'
  [name |-> <<65,99,105,114,99>>, first |-> 194, second |-> -1], \* 'Acirc'
  [name |-> <<65,99,121,59>>, first |-> 1040, second |-> -1], \* 'Acy;'
  [name |-> <<65,102,114,59>>, first |-> 120068, second |-> -1], \* 'Afr;'
  [name |-> <<65,103,114,97,118,101,59>>, first |-> 192, second |-> -1], \* 'Agrave;'
  [name |-> <<65,103,114,97,118,101>>, first |-> 192, second |-> -1], \* 'Agrave'
  [name |-> <<65,108,112,104,97,59>>, first |-> 913, second |-> -1], \* 'Alpha;'
  [name |-> <<65,109,97,99,114,59>>, first |-> 256, second |-> -1], \* 'Amacr;'
  [name |-> <<65,110,100,59>>, first |-> 10835, second |-> -1], \* 'And;'
  [name |-> <<65,111,103,111,110,59>>, first |-> 260, second |-> -1], \* 'Aogon;'
  [name |-> <<65,111,112,102,59>>, first |-> 120120, second |-> -1], \* 'Aopf;'
  [name |-> <<65,112,112,108,121,70,117,110,99,116,105,111,110,59>>, first |-> 8289, second |-> -1], \* 'ApplyFunction;'
  [name |-> <<65,114,105,110,103,59>>, first |-> 197, second |-> -1], \* 'Aring;'
  [name |-> <<65,114,105,110,103>>, first |-> 197, second |-> -1], \* 'Aring'
  [name |-> <<65,115,99,114,59>>, first |-> 119964, second |-> -1], \* 'Ascr;'
  [name |-> <<65,115,115,105,103,110,59>>, first |-> 8788, second |-> -1], \* 'Assign;'
  [name |-> <<65,116,105,108,100,101,59>>, first |-> 195, second |-> -1], \* 'Atilde;'
  [name |-> <<65,116,105,108,100,101>>, first |-> 195, second |-> -1], \* 'Atilde'
  [name |-> <<65,117,109,108,59>>, first |-> 196, second |-> -1], \* 'Auml;'
  [name |-> <<65,117,109,108>>, first |-> 196, second |-> -1], \* 'Auml'
  [name |-> <<66,97,99,107,115,108,97,115,104,59>>, first |-> 8726, second |-> -1], \* 'Backslash;'
  [name |-> <<66,97,114,118,59>>, first |-> 10983, second |-> -1], \* 'Barv;'
  [name |-> <<66,97,114,119,101,100,59>>, first |-> 8966, second |-> -1], \* 'Barwed;'
  [name |-> <<66,99,121,59>>, first |-> 1041, second |-> -1], \* 'Bcy;'
  [name |-> <<66,101,99,97,117,115,101,59>>, first |-> 8757, second |-> -1], \* 'Because;'
  [name |-> <<66,101,114,110,111,117,108,108,105,115,59>>, first |-> 8492, second |-> -1], \* 'Bernoullis;'
  [name |-> <<66,101,116,97,59>>, first |-> 914, second |-> -1], \* 'Beta;'
  [name |-> <<66,102,114,59>>, first |-> 120069, second |-> -1], \* 'Bfr;'
  [name |-> <<66,111,112,102,59>>, first |-> 120121, second |-> -1], \* 'Bopf;'
  [name |-> <<66,114,101,118,101,59>>, first |-> 728, second |-> -1], \* 'Breve;'
  [name |-> <<66,115,99,114,59>>, first |-> 8492, second |-> -1], \* 'Bscr;'
  [name |-> <<66,117,109,112,101,113,59>>, first |-> 8782, second |-> -1], \* 'Bumpeq;'
  [name |-> <<67,72,99,121,59>>, first |-> 1063, second |-> -1], \* 'CHcy;'
  [name |-> <<67,79,80,89,59>>, first |-> 169, second |-> -1], \* 'COPY;'
  [name |-> <<67,79,80,89>>, first |-> 169, second |-> -1], \* 'COPY'
  [name |-> <<67,97,99,117,116,101,59>>, first |-> 262, second |-> -1], \* 'Cacute;'
  [name |-> <<67,97,112,59>>, first |-> 8914, second |-> -1], \* 'Cap;'
  [name |-> <<67,97,112,105,116,97,108,68,105,102,102,101,114,101,110,116,105,97,108,68,59>>, first |-> 8517, second |-> -1], \* 'CapitalDifferentialD;'
  [name |-> <<67,97,121,108,101,121,115,59>>, first |-> 8493, second |-> -1], \* 'Cayleys;'
  [name |-> <<67,99,97,114,111,110,59>>, first |-> 268, second |-> -1], \* 'Ccaron;'
  [name |-> <<67,99,101,100,105,108,59>>, first |-> 199, second |-> -1], \* 'Ccedil;'
  [name |-> <<67,99,101,100,105,108>>, first |-> 199, second |-> -1], \* 'Ccedil'
  [name |-> <<67,99,105,114,99,59>>, first |-> 264, second |-> -1], \* 'Ccirc;'
  [name |-> <<67,99,111,110,105,110,116,59>>, first |-> 8752, second |-> -1], \* 'Cconint;'
  [name |-> <<67,100,111,116,59>>, first |-> 266, second |-> -1], \* 'Cdot;'
  [name |-> <<67,101,100,105,108,108,97,59>>, first |-> 184, second |-> -1], \* 'Cedilla;'
  [name |-> <<67,101,110,116,101,114,68,111,116,59>>, first |-> 183, second |-> -1], \* 'CenterDot;'
  [name |-> <<67,102,114,59>>, first |-> 8493, second |-> -1], \* 'Cfr;'
  [name |-> <<67,104,105,59>>, first |-> 935, second |-> -1], \* 'Chi;'
  [name |-> <<67,105,114,99,108,101,68,111,116,59>>, first |-> 8857, second |-> -1], \* 'CircleDot;'
  [name |-> <<67,105,114,99,108,101,77,105,110,117,115,59>>, first |-> 8854, second |-> -1], \* 'CircleMinus;'
  [name |-> <<67,105,114,99,108,101,80,108,117,115,59>>, first |-> 8853, second |-> -1], \* 'CirclePlus;'
  [name |-> <<67,105,114,99,108,101,84,105,109,101,115,59>>, first |-> 8855, second |-> -1], \* 'CircleTimes;'
  [name |-> <<67,108,111,99,107,119,105,115,101,67,111,110,116,111,117,114,73,110,116,101,103,114,97,108,59>>, first |-> 8754, second |-> -1], \* 'ClockwiseContourIntegral;'
  [name |-> <<67,108,111,115,101,67,117,114,108,121,68,111,117,98,108,101,81,117,111,116,101,59>>, first |-> 8221, second |-> -1], \* 'CloseCurlyDoubleQuote;'
  [name |-> <<67,108,111,115,101,67,117,114,108,121,81,117,111,116,101,59>>, first |-> 8217, second |-> -1], \* 'CloseCurlyQuote;'
  [name |-> <<67,111,108,111,110,59>>, first |-> 8759, second |-> -1], \* 'Colon;'
  [name |-> <<67,111,108,111,110,101,59>>, first |-> 10868, second |-> -1], \* 'Colone;'
  [name |-> <<67,111,110,103,114,117,101,110,116,59>>, first |-> 8801, second |-> -1], \* 'Congruent;'
  [name |-> <<67,111,110,105,110,116,59>>, first |-> 8751, second |-> -1], \* 'Conint;'
  [name |-> <<67,111,110,116,111,117,114,73,110,116,101,103,114,97,108,59>>, first |-> 8750, second |-> -1], \* 'ContourIntegral;'
  [name |-> <<67,111,112,102,59>>, first |-> 8450, second |-> -1], \* 'Copf;'
  [name |-> <<67,111,112,114,111,100,117,99,116,59>>, first |-> 8720, second |-> -1], \* 'Coproduct;'
  [name |-> <<67,111,117,110,116,101,114,67,108,111,99,107,119,105,115,101,67,111,110,116,111,117,114,73,110,116,101,103,114,97,108,59>>, first |-> 8755, second |-> -1], \* 'CounterClockwiseContourIntegral;'
  [name |-> <<67,114,111,115,115,59>>, first |-> 10799, second |-> -1], \* 'Cross;'
  [name |-> <<67,115,99,114,59>>, first |-> 119966, second |-> -1], \* 'Cscr;'
  [name |-> <<67,117,112,59>>, first |-> 8915, second |-> -1], \* 'Cup;'
  [name |-> <<67,117,112,67,97,112,59>>, first |-> 8781, second |-> -1], \* 'CupCap;'
  [name |-> <<68,68,59>>, first |-> 8517, second |-> -1], \* 'DD;'
  [name |-> <<68,68,111,116,114,97,104,100,59>>, first |-> 10513, second |-> -1], \* 'DDotrahd;'
  [name |-> <<68,74,99,121,59>>, first |-> 1026, second |-> -1], \* 'DJcy;'
  [name |-> <<68,83,99,121,59>>, first |-> 1029, second |-> -1], \* 'DScy;'
  [name |-> <<68,90,99,121,59>>, first |-> 1039, second |-> -1], \* 'DZcy;'
  [name |-> <<68,97,103,103,101,114,59>>, first |-> 8225, second |-> -1], \* 'Dagger;'
  [name |-> <<68,97,114,114,59>>, first |-> 8609, second |-> -1], \* 'Darr;'
  [name |-> <<68,97,115,104,118,59>>, first |-> 10980, second |-> -1], \* 'Dashv;'
  [name |-> <<68,99,97,114,111,110,59>>, first |-> 270, second |-> -1], \* 'Dcaron;'
  [name |-> <<68,99,121,59>>, first |-> 1044, second |-> -1], \* 'Dcy;'
  [name |-> <<68,101,108,59>>, first |-> 8711, second |-> -1], \* 'Del;'
  [name |-> <<68,101,108,116,97,59>>, first |-> 916, second |-> -1], \* 'Delta;'
  [name |-> <<68,102,114,59>>, first |-> 120071, second |-> -1], \* 'Dfr;'
  [name |-> <<68,105,97,99,114,105,116,105,99,97,108,65,99,117,116,101,59>>, first |-> 180, second |-> -1], \* 'DiacriticalAcute;'
  [name |-> <<68,105,97,99,114,105,116,105,99,97,108,68,111,116,59>>, first |-> 729, second |-> -1], \* 'DiacriticalDot;'
  [name |-> <<68,105,97,99,114,105,116,105,99,97,108,68,111,117,98,108,101,65,99,117,116,101,59>>, first |-> 733, second |-> -1], \* 'DiacriticalDoubleAcute;'
  [name |-> <<68,105,97,99,114,105,116,105,99,97,108,71,114,97,118,101,59>>, first |-> 96, second |-> -1], \* 'DiacriticalGrave;'
  [name |-> <<68,105,97,99,114,105,116,105,99,97,108,84,105,108,100,101,59>>, first |-> 732, second |-> -1], \* 'DiacriticalTilde;'
  [name |-> <<68,105,97,109,111,110,100,59>>, first |-> 8900, second |-> -1], \* 'Diamond;'
  [name |-> <<68,105,102,102,101,114,101,110,116,105,97,108,68,59>>, first |-> 8518, second |-> -1], \* 'DifferentialD;'
  [name |-> <<68,111,112,102,59>>, first |-> 120123, second |-> -1], \* 'Dopf;'
  [name |-> <<68,111,116,59>>, first |-> 168, second |-> -1], \* 'Dot;'
  [name |-> <<68,111,116,68,111,116,59>>, first |-> 8412, second |-> -1], \* 'DotDot;'
  [name |-> <<68,111,116,69,113,117,97,108,59>>, first |-> 8784, second |-> -1], \* 'DotEqual;'
  [name |-> <<68,111,117,98,108,101,67,111,110,116,111,117,114,73,110,116,101,103,114,97,108,59>>, first |-> 8751, second |-> -1], \* 'DoubleContourIntegral;'
  [name |-> <<68,111,117,98,108,101,68,111,116,59>>, first |-> 168, second |-> -1], \* 'DoubleDot;'
  [name |-> <<68,111,117,98,108,101,68,111,119,110,65,114,114,111,119,59>>, first |-> 8659, second |-> -1], \* 'DoubleDownArrow;'
  [name |-> <<68,111,117,98,108,101,76,101,102,116,65,114,114,111,119,59>>, first |-> 8656, second |-> -1], \* 'DoubleLeftArrow;'
  [name |-> <<68,111,117,98,108,101,76,101,102,116,82,105,103,104,116,65,114,114,111,119,59>>, first |-> 8660, second |-> -1], \* 'DoubleLeftRightArrow;'
  [name |-> <<68,111,117,98,108,101,76,101,102,116,84,101,101,59>>, first |-> 10980, second |-> -1], \* 'DoubleLeftTee;'
  [name |-> <<68,111,117,98,108,101,76,111,110,103,76,101,102,116,65,114,114,111,119,59>>, first |-> 10232, second |-> -1], \* 'DoubleLongLeftArrow;'
  [name |-> <<68,111,117,98,108,101,76,111,110,103,76,101,102,116,82,105,103,104,116,65,114,114,111,119,59>>, first |-> 10234, second |-> -1], \* 'DoubleLongLeftRightArrow;'
  [name |-> <<68,111,117,98,108,101,76,111,110,103,82,105,103,104,116,65,114,114,111,119,59>>, first |-> 10233, second |-> -1], \* 'DoubleLongRightArrow;'
  [name |-> <<68,111,117,98,108,101,82,105,103,104,116,65,114,114,111,119,59>>, first |-> 8658, second |-> -1], \* 'DoubleRightArrow;'
  [name |-> <<68,111,117,98,108,101,82,105,103,104,116,84,101,101,59>>, first |-> 8872, second |-> -1], \* 'DoubleRightTee;'
  [name |-> <<68,111,117,98,108,101,85,112,65,114,114,111,119,59>>, first |-> 8657, second |-> -1], \* 'DoubleUpArrow;'
  [name |-> <<68,111,117,98,108,101,85,112,68,111,119,110,65,114,114,111,119,59>>, first |-> 8661, second |-> -1], \* 'DoubleUpDownArrow;'
  [name |-> <<68,111,117,98,108,101,86,101,114,116,105,99,97,108,66,97,114,59>>, first |-> 8741, second |-> -1], \* 'DoubleVerticalBar;'
  [name |-> <<68,111,119,110,65,114,114,111,119,59>>, first |-> 8595, second |-> -1], \* 'DownArrow;'
  [name |-> <<68,111,119,110,65,114,114,111,119,66,97,114,59>>, first |-> 10515, second |-> -1], \* 'DownArrowBar;'
  [name |-> <<68,111,119,110,65,114,114,111,119,85,112,65,114,114,111,119,59>>, first |-> 8693, second |-> -1], \* 'DownArrowUpArrow;'
  [name |-> <<68,111,119,110,66,114,101,118,101,59>>, first |-> 785, second |-> -1], \* 'DownBreve;'
  [name |-> <<68,111,119,110,76,101,102,116,82,105,103,104,116,86,101,99,116,111,114,59>>, first |-> 10576, second |-> -1], \* 'DownLeftRightVector;'
  [name |-> <<68,111,119,110,76,101,102,116,84,101,101,86,101,99,116,111,114,59>>, first |-> 10590, second |-> -1], \* 'DownLeftTeeVector;'
  [name |-> <<68,111,119,110,76,101,102,116,86,101,99,116,111,114,59>>, first |-> 8637, second |-> -1], \* 'DownLeftVector;'
  [name |-> <<68,111,119,110,76,101,102,116,86,101,99,116,111,114,66,97,114,59>>, first |-> 10582, second |-> -1], \* 'DownLeftVectorBar;'
  [name |-> <<68,111,119,110,82,105,103,104,116,84,101,101,86,101,99,116,111,114,59>>, first |-> 10591, second |-> -1], \* 'DownRightTeeVector;'
  [name |-> <<68,111,119,110,82,105,103,104,116,86,101,99,116,111,114,59>>, first |-> 8641, second |-> -1], \* 'DownRightVector;'
  [name |-> <<68,111,119,110,82,105,103,104,116,86,101,99,116,111,114,66,97,114,59>>, first |-> 10583, second |-> -1], \* 'DownRightVectorBar;'
  [name |-> <<68,111,119,110,84,101,101,59>>, first |-> 8868, second |-> -1], \* 'DownTee;'
  [name |-> <<68,111,119,110,84,101,101,65,114,114,111,119,59>>, first |-> 8615, second |-> -1], \* 'DownTeeArrow;'
  [name |-> <<68,111,119,110,97,114,114,111,119,59>>, first |-> 8659, second |-> -1], \* 'Downarrow;'
  [name |-> <<68,115,99,114,59>>, first |-> 119967, second |-> -1], \* 'Dscr;'
  [name |-> <<68,115,116,114,111,107,59>>, first |-> 272, second |-> -1], \* 'Dstrok;'
  [name |-> <<69,78,71,59>>, first |-> 330, second |-> -1], \* 'ENG;'
  [name |-> <<69,84,72,59>>, first |-> 208, second |-> -1], \* 'ETH;'
  [name |-> <<69,84,72>>, first |-> 208, second |-> -1], \* 'ETH'
  [name |-> <<69,97,99,117,116,101,59>>, first |-> 201, second |-> -1], \* 'Eacute;'
  [name |-> <<69,97,99,117,116,101>>, first |-> 201, second |-> -1], \* 'Eacute'
  [name |-> <<69,99,97,114,111,110,59>>, first |-> 282, second |-> -1], \* 'Ecaron;'
  [name |-> <<69,99,105,114,99,59>>, first |-> 202, second |-> -1], \* 'Ecirc;'
  [name |-> <<69,99,105,114,99>>, first |-> 202, second |-> -1], \* 'Ecirc'
  [name |-> <<69,99,121,59>>, first |-> 1069, second |-> -1], \* 'Ecy;'
  [name |-> <<69,100,111,116,59>>, first |-> 278, second |-> -1], \* 'Edot;'
  [name |-> <<69,102,114,59>>, first |-> 120072, second |-> -1], \* 'Efr;'
  [name |-> <<69,103,114,97,118,101,59>>, first |-> 200, second |-> -1], \* 'Egrave;'
  [name |-> <<69,103,114,97,118,101>>, first |-> 200, second |-> -1], \* 'Egrave'
  [name |-> <<69,108,101,109,101,110,116,59>>, first |-> 8712, second |-> -1], \* 'Element;'
  [name |-> <<69,109,97,99,114,59>>, first |-> 274, second |-> -1], \* 'Emacr;'
  [name |-> <<69,109,112,116,121,83,109,97,108,108,83,113,117,97,114,101,59>>, first |-> 9723, second |-> -1], \* 'EmptySmallSquare;'
  [name |-> <<69,109,112,116,121,86,101,114,121,83,109,97,108,108,83,113,117,97,114,101,59>>, first |-> 9643, second |-> -1], \* 'EmptyVerySmallSquare;'
  [name |-> <<69,111,103,111,110,59>>, first |-> 280, second |-> -1], \* 'Eogon;'
  [name |-> <<69,111,112,102,59>>, first |-> 120124, second |-> -1], \* 'Eopf;'
  [name |-> <<69,112,115,105,108,111,110,59>>, first |-> 917, second |-> -1], \* 'Epsilon;'
  [name |-> <<69,113,117,97,108,59>>, first |-> 10869, second |-> -1], \* 'Equal;'
  [name |-> <<69,113,117,97,108,84,105,108,100,101,59>>, first |-> 8770, second |-> -1], \* 'EqualTilde;'
  [name |-> <<69,113,117,105,108,105,98,114,105,117,109,59>>, first |-> 8652, second |-> -1], \* 'Equilibrium;'
  [name |-> <<69,115,99,114,59>>, first |-> 8496, second |-> -1], \* 'Escr;'
  [name |-> <<69,115,105,109,59>>, first |-> 10867, second |-> -1], \* 'Esim;'
  [name |-> <<69,116,97,59>>, first |-> 919, second |-> -1], \* 'Eta;'
  [name |-> <<69,117,109,108,59>>, first |-> 203, second |-> -1], \* 'Euml;'
  [name |-> <<69,117,109,108>>, first |-> 203, second |-> -1], \* 'Euml'
  [name |-> <<69,120,105,115,116,115,59>>, first |-> 8707, second |-> -1], \* 'Exists;'
  [name |-> <<69,120,112,111,110,101,110,116,105,97,108,69,59>>, first |-> 8519, second |-> -1], \* 'ExponentialE;'
  [name |-> <<70,99,121,59>>, first |-> 1060, second |-> -1], \* 'Fcy;'
  [name |-> <<70,102,114,59>>, first |-> 120073, second |-> -1], \* 'Ffr;'
  [name |-> <<70,105,108,108,101,100,83,109,97,108,108,83,113,117,97,114,101,59>>, first |-> 9724, second |-> -1], \* 'FilledSmallSquare;'
  [name |-> <<70,105,108,108,101,100,86,101,114,121,83,109,97,108,108,83,113,117,97,114,101,59>>, first |-> 9642, second |-> -1], \* 'FilledVerySmallSquare;'
  [name |-> <<70,111,112,102,59>>, first |-> 120125, second |-> -1], \* 'Fopf;'
  [name |-> <<70,111,114,65,108,108,59>>, first |-> 8704, second |-> -1], \* 'ForAll;'
  [name |-> <<70,111,117,114,105,101,114,116,114,102,59>>, first |-> 8497, second |-> -1], \* 'Fouriertrf;'
  [name |-> <<70,115,99,114,59>>, first |-> 8497, second |-> -1], \* 'Fscr;'
  [name |-> <<71,74,99,121,59>>, first |-> 1027, second |-> -1], \* 'GJcy;'
  [name |-> <<71,84,59>>, first |-> 62, second |-> -1], \* 'GT;'
  [name |-> <<71,84>>, first |-> 62, second |-> -1], \* 'GT'
  [name |-> <<71,97,109,109,97,59>>, first |-> 915, second |-> -1], \* 'Gamma;'
  [name |-> <<71,97,109,109,97,100,59>>, first |-> 988, second |-> -1], \* 'Gammad;'
  [name |-> <<71,98,114,101,118,101,59>>, first |-> 286, second |-> -1], \* 'Gbreve;'
  [name |-> <<71,99,101,100,105,108,59>>, first |-> 290, second |-> -1], \* 'Gcedil;'
  [name |-> <<71,99,105,114,99,59>>, first |-> 284, second |-> -1], \* 'Gcirc;'
  [name |-> <<71,99,121,59>>, first |-> 1043, second |-> -1], \* 'Gcy;'
  [name |-> <<71,100,111,116,59>>, first |-> 288, second |-> -1], \* 'Gdot;'
  [name |-> <<71,102,114,59>>, first |-> 120074, second |-> -1], \* 'Gfr;'
  [name |-> <<71,103,59>>, first |-> 8921, second |-> -1], \* 'Gg;'
  [name |-> <<71,111,112,102,59>>, first |-> 120126, second |-> -1], \* 'Gopf;'
  [name |-> <<71,114,101,97,116,101,114,69,113,117,97,108,59>>, first |-> 8805, second |-> -1], \* 'GreaterEqual;'
  [name |-> <<71,114,101,97,116,101,114,69,113,117,97,108,76,101,115,115,59>>, first |-> 8923, second |-> -1], \* 'GreaterEqualLess;'
  [name |-> <<71,114,101,97,116,101,114,70,117,108,108,69,113,117,97,108,59>>, first |-> 8807, second |-> -1], \* 'GreaterFullEqual;'
  [name |-> <<71,114,101,97,116,101,114,71,114,101,97,116,101,114,59>>, first |-> 10914, second |-> -1], \* 'GreaterGreater;'
  [name |-> <<71,114,101,97,116,101,114,76,101,115,115,59>>, first |-> 8823, second |-> -1], \* 'GreaterLess;'
  [name |-> <<71,114,101,97,116,101,114,83,108,97,110,116,69,113,117,97,108,59>>, first |-> 10878, second |-> -1], \* 'GreaterSlantEqual;'
  [name |-> <<71,114,101,97,116,101,114,84,105,108,100,101,59>>, first |-> 8819, second |-> -1], \* 'GreaterTilde;'
  [name |-> <<71,115,99,114,59>>, first |-> 119970, second |-> -1], \* 'Gscr;'
  [name |-> <<71,116,59>>, first |-> 8811, second |-> -1], \* 'Gt;'
  [name |-> <<72,65,82,68,99,121,59>>, first |-> 1066, second |-> -1], \* 'HARDcy;'
  [name |-> <<72,97,99,101,107,59>>, first |-> 711, second |-> -1], \* 'Hacek;'
  [name |-> <<72,97,116,59>>, first |-> 94, second |-> -1], \* 'Hat;'
  [name |-> <<72,99,105,114,99,59>>, first |-> 292, second |-> -1], \* 'Hcirc;'
  [name |-> <<72,102,114,59>>, first |-> 8460, second |-> -1], \* 'Hfr;'
  [name |-> <<72,105,108,98,101,114,116,83,112,97,99,101,59>>, first |-> 8459, second |-> -1], \* 'HilbertSpace;'
  [name |-> <<72,111,112,102,59>>, first |-> 8461, second |-> -1], \* 'Hopf;'
  [name |-> <<72,111,114,105,122,111,110,116,97,108,76,105,110,101,59>>, first |-> 9472, second |-> -1], \* 'HorizontalLine;'
  [name |-> <<72,115,99,114,59>>, first |-> 8459, second |-> -1], \* 'Hscr;'
  [name |-> <<72,115,116,114,111,107,59>>, first |-> 294, second |-> -1], \* 'Hstrok;'
  [name |-> <<72,117,109,112,68,111,119,110,72,117,109,112,59>>, first |-> 8782, second |-> -1], \* 'HumpDownHump;'
  [name |-> <<72,117,109,112,69,113,117,97,108,59>>, first |-> 8783, second |-> -1], \* 'HumpEqual;'
  [name |-> <<73,69,99,121,59>>, first |-> 1045, second |-> -1], \* 'IEcy;'
  [name |-> <<73,74,108,105,103,59>>, first |-> 306, second |-> -1], \* 'IJlig;'
  [name |-> <<73,79,99,121,59>>, first |-> 1025, second |-> -1], \* 'IOcy;'
  [name |-> <<73,97,99,117,116,101,59>>, first |-> 205, second |-> -1], \* 'Iacute;'
  [name |-> <<73,97,99,117,116,101>>, first |-> 205, second |-> -1], \* 'Iacute'
  [name |-> <<73,99,105,114,99,59>>, first |-> 206, second |-> -1], \* 'Icirc;'
  [name |-> <<73,99,105,114,99>>, first |-> 206, second |-> -1], \* 'Icirc'
  [name |-> <<73,99,121,59>>, first |-> 1048, second |-> -1], \* 'Icy;'
  [name |-> <<73,100,111,116,59>>, first |-> 304, second |-> -1], \* 'Idot;'
  [name |-> <<73,102,114,59>>, first |-> 8465, second |-> -1], \* 'Ifr;'
  [name |-> <<73,103,114,97,118,101,59>>, first |-> 204, second |-> -1], \* 'Igrave;'
  [name |-> <<73,103,114,97,118,101>>, first |-> 204, second |-> -1], \* 'Igrave'
  [name |-> <<73,109,59>>, first |-> 8465, second |-> -1], \* 'Im;'
  [name |-> <<73,109,97,99,114,59>>, first |-> 298, second |-> -1], \* 'Imacr;'
  [name |-> <<73,109,97,103,105,110,97,114,121,73,59>>, first |-> 8520, second |-> -1], \* 'ImaginaryI;'
  [name |-> <<73,109,112,108,105,101,115,59>>, first |-> 8658, second |-> -1], \* 'Implies;'
  [name |-> <<73,110,116,59>>, first |-> 8748, second |-> -1], \* 'Int;'
  [name |-> <<73,110,116,101,103,114,97,108,59>>, first |-> 8747, second |-> -1], \* 'Integral;'
  [name |-> <<73,110,116,101,114,115,101,99,116,105,111,110,59>>, first |-> 8898, second |-> -1], \* 'Intersection;'
  [name |-> <<73,110,118,105,115,105,98,108,101,67,111,109,109,97,59>>, first |-> 8291, second |-> -1], \* 'InvisibleComma;'
  [name |-> <<73,110,118,105,115,105,98,108,101,84,105,109,101,115,59>>, first |-> 8290, second |-> -1], \* 'InvisibleTimes;'
  [name |-> <<73,111,103,111,110,59>>, first |-> 302, second |-> -1], \* 'Iogon;'
  [name |-> <<73,111,112,102,59>>, first |-> 120128, second |-> -1], \* 'Iopf;'
  [name |-> <<73,111,116,97,59>>, first |-> 921, second |-> -1], \* 'Iota;'
  [name |-> <<73,115,99,114,59>>, first |-> 8464, second |-> -1], \* 'Iscr;'
  [name |-> <<73,116,105,108,100,101,59>>, first |-> 296, second |-> -1], \* 'Itilde;'
  [name |-> <<73,117,107,99,121,59>>, first |-> 1030, second |-> -1], \* 'Iukcy;'
  [name |-> <<73,117,109,108,59>>, first |-> 207, second |-> -1], \* 'Iuml;'
  [name |-> <<73,117,109,108>>, first |-> 207, second |-> -1], \* 'Iuml'
  [name |-> <<74,99,105,114,99,59>>, first |-> 308, second |-> -1], \* 'Jcirc;'
  [name |-> <<74,99,121,59>>, first |-> 1049, second |-> -1], \* 'Jcy;'
  [name |-> <<74,102,114,59>>, first |-> 120077, second |-> -1], \* 'Jfr;'
  [name |-> <<74,111,112,102,59>>, first |-> 120129, second |-> -1], \* 'Jopf;'
  [name |-> <<74,115,99,114,59>>, first |-> 119973, second |-> -1], \* 'Jscr;'
  [name |-> <<74,115,101,114,99,121,59>>, first |-> 1032, second |-> -1], \* 'Jsercy;'
  [name |-> <<74,117,107,99,121,59>>, first |-> 1028, second |-> -1], \* 'Jukcy;'
  [name |-> <<75,72,99,121,59>>, first |-> 1061, second |-> -1], \* 'KHcy;'
  [name |-> <<75,74,99,121,59>>, first |-> 1036, second |-> -1], \* 'KJcy;'
  [name |-> <<75,97,112,112,97,59>>, first |-> 922, second |-> -1], \* 'Kappa;'
  [name |-> <<75,99,101,100,105,108,59>>, first |-> 310, second |-> -1], \* 'Kcedil;'
  [name |-> <<75,99,121,59>>, first |-> 1050, second |-> -1], \* 'Kcy;'
  [name |-> <<75,102,114,59>>, first |-> 120078, second |-> -1], \* 'Kfr;'
  [name |-> <<75,111,112,102,59>>, first |-> 120130, second |-> -1], \* 'Kopf;'
  [name |-> <<75,115,99,114,59>>, first |-> 119974, second |-> -1], \* 'Kscr;'
  [name |-> <<76,74,99,121,59>>, first |-> 1033, second |-> -1], \* 'LJcy;'
  [name |-> <<76,84,59>>, first |-> 60, second |-> -1], \* 'LT;'
  [name |-> <<76,84>>, first |-> 60, second |-> -1], \* 'LT'
  [name |-> <<76,97,99,117,116,101,59>>, first |-> 313, second |-> -1], \* 'Lacute;'
  [name |-> <<76,97,109,98,100,97,59>>, first |-> 923, second |-> -1], \* 'Lambda;'
  [name |-> <<76,97,110,103,59>>, first |-> 10218, second |-> -1], \* 'Lang;'
  [name |-> <<76,97,112,108,97,99,101,116,114,102,59>>, first |-> 8466, second |-> -1], \* 'Laplacetrf;'
  [name |-> <<76,97,114,114,59>>, first |-> 8606, second |-> -1], \* 'Larr;'
  [name |-> <<76,99,97,114,111,110,59>>, first |-> 317, second |-> -1], \* 'Lcaron;'
  [name |-> <<76,99,101,100,105,108,59>>, first |-> 315, second |-> -1], \* 'Lcedil;'
  [name |-> <<76,99,121,59>>, first |-> 1051, second |-> -1], \* 'Lcy;'
  [name |-> <<76,101,102,116,65,110,103,108,101,66,114,97,99,107,101,116,59>>, first |-> 10216, second |-> -1], \* 'LeftAngleBracket;'
  [name |-> <<76,101,102,116,65,114,114,111,119,59>>, first |-> 8592, second |-> -1], \* 'LeftArrow;'
  [name |-> <<76,101,102,116,65,114,114,111,119,66,97,114,59>>, first |-> 8676, second |-> -1], \* 'LeftArrowBar;'
  [name |-> <<76,101,102,116,65,114,114,111,119,82,105,103,104,116,65,114,114,111,119,59>>, first |-> 8646, second |-> -1], \* 'LeftArrowRightArrow;'
  [name |-> <<76,101,102,116,67,101,105,108,105,110,103,59>>, first |-> 8968, second |-> -1], \* 'LeftCeiling;'
  [name |-> <<76,101,102,116,68,111,117,98,108,101,66,114,97,99,107,101,116,59>>, first |-> 10214, second |-> -1], \* 'LeftDoubleBracket;'
  [name |-> <<76,101,102,116,68,111,119,110,84,101,101,86,101,99,116,111,114,59>>, first |-> 10593, second |-> -1], \* 'LeftDownTeeVector;'
  [name |-> <<76,101,102,116,68,111,119,110,86,101,99,116,111,114,59>>, first |-> 8643, second |-> -1], \* 'LeftDownVector;'
  [name |-> <<76,101,102,116,68,111,119,110,86,101,99,116,111,114,66,97,114,59>>, first |-> 10585, second |-> -1], \* 'LeftDownVectorBar;'
  [name |-> <<76,101,102,116,70,108,111,111,114,59>>, first |-> 8970, second |-> -1], \* 'LeftFloor;'
  [name |-> <<76,101,102,116,82,105,103,104,116,65,114,114,111,119,59>>, first |-> 8596, second |-> -1], \* 'LeftRightArrow;'
  [name |-> <<76,101,102,116,82,105,103,104,116,86,101,99,116,111,114,59>>, first |-> 10574, second |-> -1], \* 'LeftRightVector;'
  [name |-> <<76,101,102,116,84,101,101,59>>, first |-> 8867, second |-> -1], \* 'LeftTee;'
  [name |-> <<76,101,102,116,84,101,101,65,114,114,111,119,59>>, first |-> 8612, second |-> -1], \* 'LeftTeeArrow;'
  [name |-> <<76,101,102,116,84,101,101,86,101,99,116,111,114,59>>, first |-> 10586, second |-> -1], \* 'LeftTeeVector;'
  [name |-> <<76,101,102,116,84,114,105,97,110,103,108,101,59>>, first |-> 8882, second |-> -1], \* 'LeftTriangle;'
  [name |-> <<76,101,102,116,84,114,105,97,110,103,108,101,66,97,114,59>>, first |-> 10703, second |-> -1], \* 'LeftTriangleBar;'
  [name |-> <<76,101,102,116,84,114,105,97,110,103,108,101,69,113,117,97,108,59>>, first |-> 8884, second |-> -1], \* 'LeftTriangleEqual;'
  [name |-> <<76,101,102,116,85,112,68,111,119,110,86,101,99,116,111,114,59>>, first |-> 10577, second |-> -1], \* 'LeftUpDownVector;'
  [name |-> <<76,101,102,116,85,112,84,101,101,86,101,99,116,111,114,59>>, first |-> 10592, second |-> -1], \* 'LeftUpTeeVector;'
  [name |-> <<76,101,102,116,85,112,86,101,99,116,111,114,59>>, first |-> 8639, second |-> -1], \* 'LeftUpVector;'
  [name |-> <<76,101,102,116,85,112,86,101,99,116,111,114,66,97,114,59>>, first |-> 10584, second |-> -1], \* 'LeftUpVectorBar;'
  [name |-> <<76,101,102,116,86,101,99,116,111,114,59>>, first |-> 8636, second |-> -1], \* 'LeftVector;'
  [name |-> <<76,101,102,116,86,101,99,116,111,114,66,97,114,59>>, first |-> 10578, second |-> -1], \* 'LeftVectorBar;'
  [name |-> <<76,101,102,116,97,114,114,111,119,59>>, first |-> 8656, second |-> -1], \* 'Leftarrow;'
  [name |-> <<76,101,102,116,114,105,103,104,116,97,114,114,111,119,59>>, first |-> 8660, second |-> -1], \* 'Leftrightarrow;'
  [name |-> <<76,101,115,115,69,113,117,97,108,71,114,101,97,116,101,114,59>>, first |-> 8922, second |-> -1], \* 'LessEqualGreater;'
  [name |-> <<76,101,115,115,70,117,108,108,69,113,117,97,108,59>>, first |-> 8806, second |-> -1], \* 'LessFullEqual;'
  [name |-> <<76,101,115,115,71,114,101,97,116,101,114,59>>, first |-> 8822, second |-> -1], \* 'LessGreater;'
  [name |-> <<76,101,115,115,76,101,115,115,59>>, first |-> 10913, second |-> -1], \* 'LessLess;'
  [name |-> <<76,101,115,115,83,108,97,110,116,69,113,117,97,108,59>>, first |-> 10877, second |-> -1], \* 'LessSlantEqual;'
  [name |-> <<76,101,115,115,84,105,108,100,101,59>>, first |-> 8818, second |-> -1], \* 'LessTilde;'
  [name |-> <<76,102,114,59>>, first |-> 120079, second |-> -1], \* 'Lfr;'
  [name |-> <<76,108,59>>, first |-> 8920, second |-> -1], \* 'Ll;'
  [name |-> <<76,108,101,102,116,97,114,114,111,119,59>>, first |-> 8666, second |-> -1], \* 'Lleftarrow;'
  [name |-> <<76,109,105,100,111,116,59>>, first |-> 319, second |-> -1], \* 'Lmidot;'
  [name |-> <<76,111,110,103,76,101,102,116,65,114,114,111,119,59>>, first |-> 10229, second |-> -1], \* 'LongLeftArrow;'
  [name |-> <<76,111,110,103,76,101,102,116,82,105,103,104,116,65,114,114,111,119,59>>, first |-> 10231, second |-> -1], \* 'LongLeftRightArrow;'
  [name |-> <<76,111,110,103,82,105,103,104,116,65,114,114,111,119,59>>, first |-> 10230, second |-> -1], \* 'LongRightArrow;'
  [name |-> <<76,111,110,103,108,101,102,116,97,114,114,111,119,59>>, first |-> 10232, second |-> -1], \* 'Longleftarrow;'
  [name |-> <<76,111,110,103,108,101,102,116,114,105,103,104,116,97,114,114,111,119,59>>, first |-> 10234, second |-> -1], \* 'Longleftrightarrow;'
  [name |-> <<76,111,110,103,114,105,103,104,116,97,114,114,111,119,59>>, first |-> 10233, second |-> -1], \* 'Longrightarrow;'
  [name |-> <<76,111,112,102,59>>, first |-> 120131, second |-> -1], \* 'Lopf;'
  [name |-> <<76,111,119,101,114,76,101,102,116,65,114,114,111,119,59>>, first |-> 8601, second |-> -1], \* 'LowerLeftArrow;'
  [name |-> <<76,111,119,101,114,82,105,103,104,116,65,114,114,111,119,59>>, first |-> 8600, second |-> -1], \* 'LowerRightArrow;'
  [name |-> <<76,115,99,114,59>>, first |-> 8466, second |-> -1], \* 'Lscr;'
  [name |-> <<76,115,104,59>>, first |-> 8624, second |-> -1], \* 'Lsh;'
  [name |-> <<76,115,116,114,111,107,59>>, first |-> 321, second |-> -1], \* 'Lstrok;'
  [name |-> <<76,116,59>>, first |-> 8810, second |-> -1], \* 'Lt;'
  [name |-> <<77,97,112,59>>, first |-> 10501, second |-> -1], \* 'Map;'
  [name |-> <<77,99,121,59>>, first |-> 1052, second |-> -1], \* 'Mcy;'
  [name |-> <<77,101,100,105,117,109,83,112,97,99,101,59>>, first |-> 8287, second |-> -1], \* 'MediumSpace;'
  [name |-> <<77,101,108,108,105,110,116,114,102,59>>, first |-> 8499, second |-> -1], \* 'Mellintrf;'
  [name |-> <<77,102,114,59>>, first |-> 120080, second |-> -1], \* 'Mfr;'
  [name |-> <<77,105,110,117,115,80,108,117,115,59>>, first |-> 8723, second |-> -1], \* 'MinusPlus;'
  [name |-> <<77,111,112,102,59>>, first |-> 120132, second |-> -1], \* 'Mopf;'
  [name |-> <<77,115,99,114,59>>, first |-> 8499, second |-> -1], \* 'Mscr;'
  [name |-> <<77,117,59>>, first |-> 924, second |-> -1], \* 'Mu;'
  [name |-> <<78,74,99,121,59>>, first |-> 1034, second |-> -1], \* 'NJcy;'
  [name |-> <<78,97,99,117,116,101,59>>, first |-> 323, second |-> -1], \* 'Nacute;'
  [name |-> <<78,99,97,114,111,110,59>>, first |-> 327, second |-> -1], \* 'Ncaron;'
  [name |-> <<78,99,101,100,105,108,59>>, first |-> 325, second |-> -1], \* 'Ncedil;'
  [name |-> <<78,99,121,59>>, first |-> 1053, second |-> -1], \* 'Ncy;'
  [name |-> <<78,101,103,97,116,105,118,101,77,101,100,105,117,109,83,112,97,99,101,59>>, first |-> 8203, second |-> -1], \* 'NegativeMediumSpace;'
  [name |-> <<78,101,103,97,116,105,118,101,84,104,105,99,107,83,112,97,99,101,59>>, first |-> 8203, second |-> -1], \* 'NegativeThickSpace;'
  [name |-> <<78,101,103,97,116,105,118,101,84,104,105,110,83,112,97,99,101,59>>, first |-> 8203, second |-> -1], \* 'NegativeThinSpace;'
  [name |-> <<78,101,103,97,116,105,118,101,86,101,114,121,84,104,105,110,83,112,97,99,101,59>>, first |-> 8203, second |-> -1], \* 'NegativeVeryThinSpace;'
  [name |-> <<78,101,115,116,101,100,71,114,101,97,116,101,114,71,114,101,97,116,101,114,59>>, first |-> 8811, second |-> -1], \* 'NestedGreaterGreater;'
  [name |-> <<78,101,115,116,101,100,76,101,115,115,76,101,115,115,59>>, first |-> 8810, second |-> -1], \* 'NestedLessLess;'
  [name |-> <<78,101,119,76,105,110,101,59>>, first |-> 10, second |-> -1], \* 'NewLine;'
  [name |-> <<78,102,114,59>>, first |-> 120081, second |-> -1], \* 'Nfr;'
  [name |-> <<78,111,66,114,101,97,107,59>>, first |-> 8288, second |-> -1], \* 'NoBreak;'
  [name |-> <<78,111,110,66,114,101,97,107,105,110,103,83,112,97,99,101,59>>, first |-> 160, second |-> -1], \* 'NonBreakingSpace;'
  [name |-> <<78,111,112,102,59>>, first |-> 8469, second |-> -1], \* 'Nopf;'
  [name |-> <<78,111,116,59>>, first |-> 10988, second |-> -1], \* 'Not;'
  [name |-> <<78,111,116,67,111,110,103,114,117,101,110,116,59>>, first |-> 8802, second |-> -1], \* 'NotCongruent;'
  [name |-> <<78,111,116,67,117,112,67,97,112,59>>, first |-> 8813, second |-> -1], \* 'NotCupCap;'
  [name |-> <<78,111,116,68,111,117,98,108,101,86,101,114,116,105,99,97,108,66,97,114,59>>, first |-> 8742, second |-> -1], \* 'NotDoubleVerticalBar;'
  [name |-> <<78,111,116,69,108,101,109,101,110,116,59>>, first |-> 8713, second |-> -1], \* 'NotElement;'
  [name |-> <<78,111,116,69,113,117,97,108,59>>, first |-> 8800, second |-> -1], \* 'NotEqual;'
  [name |-> <<78,111,116,69,113,117,97,108,84,105,108,100,101,59>>, first |-> 8770, second |-> 824], \* 'NotEqualTilde;'
  [name |-> <<78,111,116,69,120,105,115,116,115,59>>, first |-> 8708, second |-> -1], \* 'NotExists;'
  [name |-> <<78,111,116,71,114,101,97,116,101,114,59>>, first |-> 8815, second |-> -1], \* 'NotGreater;'
  [name |-> <<78,111,116,71,114,101,97,116,101,114,69,113,117,97,108,59>>, first |-> 8817, second |-> -1], \* 'NotGreaterEqual;'
  [name |-> <<78,111,116,71,114,101,97,116,101,114,70,117,108,108,69,113,117,97,108,59>>, first |-> 8807, second |-> 824], \* 'NotGreaterFullEqual;'
  [name |-> <<78,111,116,71,114,101,97,116,101,114,71,114,101,97,116,101,114,59>>, first |-> 8811, second |-> 824], \* 'NotGreaterGreater;'
  [name |-> <<78,111,116,71,114,101,97,116,101,114,76,101,115,115,59>>, first |-> 8825, second |-> -1], \* 'NotGreaterLess;'
  [name |-> <<78,111,116,71,114,101,97,116,101,114,83,108,97,110,116,69,113,117,97,108,59>>, first |-> 10878, second |-> 824], \* 'NotGreaterSlantEqual;'
  [name |-> <<78,111,116,71,114,101,97,116,101,114,84,105,108,100,101,59>>, first |-> 8821, second |-> -1], \* 'NotGreaterTilde;'
  [name |-> <<78,111,116,72,117,109,112,68,111,119,110,72,117,109,112,59>>, first |-> 8782, second |-> 824], \* 'NotHumpDownHump;'
  [name |-> <<78,111,116,72,117,109,112,69,113,117,97,108,59>>, first |-> 8783, second |-> 824], \* 'NotHumpEqual;'
  [name |-> <<78,111,116,76,101,102,116,84,114,105,97,110,103,108,101,59>>, first |-> 8938, second |-> -1], \* 'NotLeftTriangle;'
  [name |-> <<78,111,116,76,101,102,116,84,114,105,97,110,103,108,101,66,97,114,59>>, first |-> 10703, second |-> 824], \* 'NotLeftTriangleBar;'
  [name |-> <<78,111,116,76,101,102,116,84,114,105,97,110,103,108,101,69,113,117,97,108,59>>, first |-> 8940, second |-> -1], \* 'NotLeftTriangleEqual;'
  [name |-> <<78,111,116,76,101,115,115,59>>, first |-> 8814, second |-> -1], \* 'NotLess;'
  [name |-> <<78,111,116,76,101,115,115,69,113,117,97,108,59>>, first |-> 8816, second |-> -1], \* 'NotLessEqual;'
  [name |-> <<78,111,116,76,101,115,115,71,114,101,97,116,101,114,59>>, first |-> 8824, second |-> -1], \* 'NotLessGreater;'
  [name |-> <<78,111,116,76,101,115,115,76,101,115,115,59>>, first |-> 8810, second |-> 824], \* 'NotLessLess;'
  [name |-> <<78,111,116,76,101,115,115,83,108,97,110,116,69,113,117,97,108,59>>, first |-> 10877, second |-> 824], \* 'NotLessSlantEqual;'
  [name |-> <<78,111,116,76,101,115,115,84,105,108,100,101,59>>, first |-> 8820, second |-> -1], \* 'NotLessTilde;'
  [name |-> <<78,111,116,78,101,115,116,101,100,71,114,101,97,116,101,114,71,114,101,97,116,101,114,59>>, first |-> 10914, second |-> 824], \* 'NotNestedGreaterGreater;'
  [name |-> <<78,111,116,78,101,115,116,101,100,76,101,115,115,76,101,115,115,59>>, first |-> 10913, second |-> 824], \* 'NotNestedLessLess;'
  [name |-> <<78,111,116,80,114,101,99,101,100,101,115,59>>, first |-> 8832, second |-> -1], \* 'NotPrecedes;'
  [name |-> <<78,111,116,80,114,101,99,101,100,101,115,69,113,117,97,108,59>>, first |-> 10927, second |-> 824], \* 'NotPrecedesEqual;'
  [name |-> <<78,111,116,80,114,101,99,101,100,101,115,83,108,97,110,116,69,113,117,97,108,59>>, first |-> 8928, second |-> -1], \* 'NotPrecedesSlantEqual;'
  [name |-> <<78,111,116,82,101,118,101,114,115,101,69,108,101,109,101,110,116,59>>, first |-> 8716, second |-> -1], \* 'NotReverseElement;'
  [name |-> <<78,111,116,82,105,103,104,116,84,114,105,97,110,103,108,101,59>>, first |-> 8939, second |-> -1], \* 'NotRightTriangle;'
  [name |-> <<78,111,116,82,105,103,104,116,84,114,105,97,110,103,108,101,66,97,114,59>>, first |-> 10704, second |-> 824], \* 'NotRightTriangleBar;'
  [name |-> <<78,111,116,82,105,103,104,116,84,114,105,97,110,103,108,101,69,113,117,97,108,59>>, first |-> 8941, second |-> -1], \* 'NotRightTriangleEqual;'
  [name |-> <<78,111,116,83,113,117,97,114,101,83,117,98,115,101,116,59>>, first |-> 8847, second |-> 824], \* 'NotSquareSubset;'
  [name |-> <<78,111,116,83,113,117,97,114,101,83,117,98,115,101,116,69,113,117,97,108,59>>, first |-> 8930, second |-> -1], \* 'NotSquareSubsetEqual;'
  [name |-> <<78,111,116,83,113,117,97,114,101,83,117,112,101,114,115,101,116,59>>, first |-> 8848, second |-> 824], \* 'NotSquareSuperset;'
  [name |-> <<78,111,116,83,113,117,97,114,101,83,117,112,101,114,115,101,116,69,113,117,97,108,59>>, first |-> 8931, second |-> -1], \* 'NotSquareSupersetEqual;'
  [name |-> <<78,111,116,83,117,98,115,101,116,59>>, first |-> 8834, second |-> 8402], \* 'NotSubset;'
  [name |-> <<78,111,116,83,117,98,115,101,116,69,113,117,97,108,59>>, first |-> 8840, second |-> -1], \* 'NotSubsetEqual;'
  [name |-> <<78,111,116,83,117,99,99,101,101,100,115,59>>, first |-> 8833, second |-> -1], \* 'NotSucceeds;'
  [name |-> <<78,111,116,83,117,99,99,101,101,100,115,69,113,117,97,108,59>>, first |-> 10928, second |-> 824], \* 'NotSucceedsEqual;'
  [name |-> <<78,111,116,83,117,99,99,101,101,100,115,83,108,97,110,116,69,113,117,97,108,59>>, first |-> 8929, second |-> -1], \* 'NotSucceedsSlantEqual;'
  [name |-> <<78,111,116,83,117,99,99,101,101,100,115,84,105,108,100,101,59>>, first |-> 8831, second |-> 824], \* 'NotSucceedsTilde;'
  [name |-> <<78,111,116,83,117,112,101,114,115,101,116,59>>, first |-> 8835, second |-> 8402], \* 'NotSuperset;'
  [name |-> <<78,111,116,83,117,112,101,114,115,101,116,69,113,117,97,108,59>>, first |-> 8841, second |-> -1], \* 'NotSupersetEqual;'
  [name |-> <<78,111,116,84,105,108,100,101,59>>, first |-> 8769, second |-> -1], \* 'NotTilde;'
  [name |-> <<78,111,116,84,105,108,100,101,69,113,117,97,108,59>>, first |-> 8772, second |-> -1], \* 'NotTildeEqual;'
  [name |-> <<78,111,116,84,105,108,100,101,70,117,108,108,69,113,117,97,108,59>>, first |-> 8775, second |-> -1], \* 'NotTildeFullEqual;'
  [name |-> <<78,111,116,84,105,108,100,101,84,105,108,100,101,59>>, first |-> 8777, second |-> -1], \* 'NotTildeTilde;'
  [name |-> <<78,111,116,86,101,114,116,105,99,97,108,66,97,114,59>>, first |-> 8740, second |-> -1], \* 'NotVerticalBar;'
  [name |-> <<78,115,99,114,59>>, first |-> 119977, second |-> -1], \* 'Nscr;'
  [name |-> <<78,116,105,108,100,101,59>>, first |-> 209, second |-> -1], \* 'Ntilde;'
  [name |-> <<78,116,105,108,100,101>>, first |-> 209, second |-> -1], \* 'Ntilde'
  [name |-> <<78,117,59>>, first |-> 925, second |-> -1], \* 'Nu;'
  [name |-> <<79,69,108,105,103,59>>, first |-> 338, second |-> -1], \* 'OElig;'
  [name |-> <<79,97,99,117,116,101,59>>, first |-> 211, second |-> -1], \* 'Oacute;'
  [name |-> <<79,97,99,117,116,101>>, first |-> 211, second |-> -1], \* 'Oacute'
  [name |-> <<79,99,105,114,99,59>>, first |-> 212, second |-> -1], \* 'Ocirc;'
  [name |-> <<79,99,105,114,99>>, first |-> 212, second |-> -1], \* 'Ocirc'
  [name |-> <<79,99,121,59>>, first |-> 1054, second |-> -1], \* 'Ocy;'
  [name |-> <<79,100,98,108,97,99,59>>, first |-> 336, second |-> -1], \* 'Odblac;'
  [name |-> <<79,102,114,59>>, first |-> 120082, second |-> -1], \* 'Ofr;'
  [name |-> <<79,103,114,97,118,101,59>>, first |-> 210, second |-> -1], \* 'Ograve;'
  [name |-> <<79,103,114,97,118,101>>, first |-> 210, second |-> -1], \* 'Ograve'
  [name |-> <<79,109,97,99,114,59>>, first |-> 332, second |-> -1], \* 'Omacr;'
  [name |-> <<79,109,101,103,97,59>>, first |-> 937, second |-> -1], \* 'Omega;'
  [name |-> <<79,109,105,99,114,111,110,59>>, first |-> 927, second |-> -1], \* 'Omicron;'
  [name |-> <<79,111,112,102,59>>, first |-> 120134, second |-> -1], \* 'Oopf;'
  [name |-> <<79,112,101,110,67,117,114,108,121,68,111,117,98,108,101,81,117,111,116,101,59>>, first |-> 8220, second |-> -1], \* 'OpenCurlyDoubleQuote;'
  [name |-> <<79,112,101,110,67,117,114,108,121,81,117,111,116,101,59>>, first |-> 8216, second |-> -1], \* 'OpenCurlyQuote;'
  [name |-> <<79,114,59>>, first |-> 10836, second |-> -1], \* 'Or;'
  [name |-> <<79,115,99,114,59>>, first |-> 119978, second |-> -1], \* 'Oscr;'
  [name |-> <<79,115,108,97,115,104,59>>, first |-> 216, second |-> -1], \* 'Oslash;'
  [name |-> <<79,115,108,97,115,104>>, first |-> 216, second |-> -1], \* 'Oslash'
  [name |-> <<79,116,105,108,100,101,59>>, first |-> 213, second |-> -1], \* 'Otilde;'
  [name |-> <<79,116,105,108,100,101>>, first |-> 213, second |-> -1], \* 'Otilde'
  [name |-> <<79,116,105,109,101,115,59>>, first |-> 10807, second |-> -1], \* 'Otimes;'
  [name |-> <<79,117,109,108,59>>, first |-> 214, second |-> -1], \* 'Ouml;'
  [name |-> <<79,117,109,108>>, first |-> 214, second |-> -1], \* 'Ouml'
  [name |-> <<79,118,101,114,66,97,114,59>>, first |-> 8254, second |-> -1], \* 'OverBar;'
  [name |-> <<79,118,101,114,66,114,97,99,101,59>>, first |-> 9182, second |-> -1], \* 'OverBrace;'
  [name |-> <<79,118,101,114,66,114,97,99,107,101,116,59>>, first |-> 9140, second |-> -1], \* 'OverBracket;'
  [name |-> <<79,118,101,114,80,97,114,101,110,116,104,101,115,105,115,59>>, first |-> 9180, second |-> -1], \* 'OverParenthesis;'
  [name |-> <<80,97,114,116,105,97,108,68,59>>, first |-> 8706, second |-> -1], \* 'PartialD;'
  [name |-> <<80,99,121,59>>, first |-> 1055, second |-> -1], \* 'Pcy;'
  [name |-> <<80,102,114,59>>, first |-> 120083, second |-> -1], \* 'Pfr;'
  [name |-> <<80,104,105,59>>, first |-> 934, second |-> -1], \* 'Phi;'
  [name |-> <<80,105,59>>, first |-> 928, second |-> -1], \* 'Pi;'
  [name |-> <<80,108,117,115,77,105,110,117,115,59>>, first |-> 177, second |-> -1], \* 'PlusMinus;'
  [name |-> <<80,111,105,110,99,97,114,101,112,108,97,110,101,59>>, first |-> 8460, second |-> -1], \* 'Poincareplane;'
  [name |-> <<80,111,112,102,59>>, first |-> 8473, second |-> -1], \* 'Popf;'
  [name |-> <<80,114,59>>, first |-> 10939, second |-> -1], \* 'Pr;'
  [name |-> <<80,114,101,99,101,100,101,115,59>>, first |-> 8826, second |-> -1], \* 'Precedes;'
  [name |-> <<80,114,101,99,101,100,101,115,69,113,117,97,108,59>>, first |-> 10927, second |-> -1], \* 'PrecedesEqual;'
  [name |-> <<80,114,101,99,101,100,101,115,83,108,97,110,116,69,113,117,97,108,59>>, first |-> 8828, second |-> -1], \* 'PrecedesSlantEqual;'
  [name |-> <<80,114,101,99,101,100,101,115,84,105,108,100,101,59>>, first |-> 8830, second |-> -1], \* 'PrecedesTilde;'
  [name |-> <<80,114,105,109,101,59>>, first |-> 8243, second |-> -1], \* 'Prime;'
  [name |-> <<80,114,111,100,117,99,116,59>>, first |-> 8719, second |-> -1], \* 'Product;'
  [name |-> <<80,114,111,112,111,114,116,105,111,110,59>>, first |-> 8759, second |-> -1], \* 'Proportion;'
  [name |-> <<80,114,111,112,111,114,116,105,111,110,97,108,59>>, first |-> 8733, second |-> -1], \* 'Proportional;'
  [name |-> <<80,115,99,114,59>>, first |-> 119979, second |-> -1], \* 'Pscr;'
  [name |-> <<80,115,105,59>>, first |-> 936, second |-> -1], \* 'Psi;'
  [name |-> <<81,85,79,84,59>>, first |-> 34, second |-> -1], \* 'QUOT;'
  [name |-> <<81,85,79,84>>, first |-> 34, second |-> -1], \* 'QUOT'
  [name |-> <<81,102,114,59>>, first |-> 120084, second |-> -1], \* 'Qfr;'
  [name |-> <<81,111,112,102,59>>, first |-> 8474, second |-> -1], \* 'Qopf;'
  [name |-> <<81,115,99,114,59>>, first |-> 119980, second |-> -1], \* 'Qscr;'
  [name |-> <<82,66,97,114,114,59>>, first |-> 10512, second |-> -1], \* 'RBarr;'
  [name |-> <<82,69,71,59>>, first |-> 174, second |-> -1], \* 'REG;'
  [name |-> <<82,69,71>>, first |-> 174, second |-> -1], \* 'REG'
  [name |-> <<82,97,99,117,116,101,59>>, first |-> 340, second |-> -1], \* 'Racute;'
  [name |-> <<82,97,110,103,59>>, first |-> 10219, second |-> -1], \* 'Rang;'
  [name |-> <<82,97,114,114,59>>, first |-> 8608, second |-> -1], \* 'Rarr;'
  [name |-> <<82,97,114,114,116,108,59>>, first |-> 10518, second |-> -1], \* 'Rarrtl;'
  [name |-> <<82,99,97,114,111,110,59>>, first |-> 344, second |-> -1], \* 'Rcaron;'
  [name |-> <<82,99,101,100,105,108,59>>, first |-> 342, second |-> -1], \* 'Rcedil;'
  [name |-> <<82,99,121,59>>, first |-> 1056, second |-> -1], \* 'Rcy;'
  [name |-> <<82,101,59>>, first |-> 8476, second |-> -1], \* 'Re;'
  [name |-> <<82,101,118,101,114,115,101,69,108,101,109,101,110,116,59>>, first |-> 8715, second |-> -1], \* 'ReverseElement;'
  [name |-> <<82,101,118,101,114,115,101,69,113,117,105,108,105,98,114,105,117,109,59>>, first |-> 8651, second |-> -1], \* 'ReverseEquilibrium;'
  [name |-> <<82,101,118,101,114,115,101,85,112,69,113,117,105,108,105,98,114,105,117,109,59>>, first |-> 10607, second |-> -1], \* 'ReverseUpEquilibrium;'
  [name |-> <<82,102,114,59>>, first |-> 8476, second |-> -1], \* 'Rfr;'
  [name |-> <<82,104,111,59>>, first |-> 929, second |-> -1], \* 'Rho;'
  [name |-> <<82,105,103,104,116,65,110,103,108,101,66,114,97,99,107,101,116,59>>, first |-> 10217, second |-> -1], \* 'RightAngleBracket;'
  [name |-> <<82,105,103,104,116,65,114,114,111,119,59>>, first |-> 8594, second |-> -1], \* 'RightArrow;'
  [name |-> <<82,105,103,104,116,65,114,114,111,119,66,97,114,59>>, first |-> 8677, second |-> -1], \* 'RightArrowBar;'
  [name |-> <<82,105,103,104,116,65,114,114,111,119,76,101,102,116,65,114,114,111,119,59>>, first |-> 8644, second |-> -1], \* 'RightArrowLeftArrow;'
  [name |-> <<82,105,103,104,116,67,101,105,108,105,110,103,59>>, first |-> 8969, second |-> -1], \* 'RightCeiling;'
  [name |-> <<82,105,103,104,116,68,111,117,98,108,101,66,114,97,99,107,101,116,59>>, first |-> 10215, second |-> -1], \* 'RightDoubleBracket;'
  [name |-> <<82,105,103,104,116,68,111,119,110,84,101,101,86,101,99,116,111,114,59>>, first |-> 10589, second |-> -1], \* 'RightDownTeeVector;'
  [name |-> <<82,105,103,104,116,68,111,119,110,86,101,99,116,111,114,59>>, first |-> 8642, second |-> -1], \* 'RightDownVector;'
  [name |-> <<82,105,103,104,116,68,111,119,110,86,101,99,116,111,114,66,97,114,59>>, first |-> 10581, second |-> -1], \* 'RightDownVectorBar;'
  [name |-> <<82,105,103,104,116,70,108,111,111,114,59>>, first |-> 8971, second |-> -1], \* 'RightFloor;'
  [name |-> <<82,105,103,104,116,84,101,101,59>>, first |-> 8866, second |-> -1], \* 'RightTee;'
  [name |-> <<82,105,103,104,116,84,101,101,65,114,114,111,119,59>>, first |-> 8614, second |-> -1], \* 'RightTeeArrow;'
  [name |-> <<82,105,103,104,116,84,101,101,86,101,99,116,111,114,59>>, first |-> 10587, second |-> -1], \* 'RightTeeVector;'
  [name |-> <<82,105,103,104,116,84,114,105,97,110,103,108,101,59>>, first |-> 8883, second |-> -1], \* 'RightTriangle;'
  [name |-> <<82,105,103,104,116,84,114,105,97,110,103,108,101,66,97,114,59>>, first |-> 10704, second |-> -1], \* 'RightTriangleBar;'
  [name |-> <<82,105,103,104,116,84,114,105,97,110,103,108,101,69,113,117,97,108,59>>, first |-> 8885, second |-> -1], \* 'RightTriangleEqual;'
  [name |-> <<82,105,103,104,116,85,112,68,111,119,110,86,101,99,116,111,114,59>>, first |-> 10575, second |-> -1], \* 'RightUpDownVector;'
  [name |-> <<82,105,103,104,116,85,112,84,101,101,86,101,99,116,111,114,59>>, first |-> 10588, second |-> -1], \* 'RightUpTeeVector;'
  [name |-> <<82,105,103,104,116,85,112,86,101,99,116,111,114,59>>, first |-> 8638, second |-> -1], \* 'RightUpVector;'
  [name |-> <<82,105,103,104,116,85,112,86,101,99,116,111,114,66,97,114,59>>, first |-> 10580, second |-> -1], \* 'RightUpVectorBar;'
  [name |-> <<82,105,103,104,116,86,101,99,116,111,114,59>>, first |-> 8640, second |-> -1], \* 'RightVector;'
  [name |-> <<82,105,103,104,116,86,101,99,116,111,114,66,97,114,59>>, first |-> 10579, second |-> -1], \* 'RightVectorBar;'
  [name |-> <<82,105,103,104,116,97,114,114,111,119,59>>, first |-> 8658, second |-> -1], \* 'Rightarrow;'
  [name |-> <<82,111,112,102,59>>, first |-> 8477, second |-> -1], \* 'Ropf;'
  [name |-> <<82,111,117,110,100,73,109,112,108,105,101,115,59>>, first |-> 10608, second |-> -1], \* 'RoundImplies;'
  [name |-> <<82,114,105,103,104,116,97,114,114,111,119,59>>, first |-> 8667, second |-> -1], \* 'Rrightarrow;'
  [name |-> <<82,115,99,114,59>>, first |-> 8475, second |-> -1], \* 'Rscr;'
  [name |-> <<82,115,104,59>>, first |-> 8625, second |-> -1], \* 'Rsh;'
  [name |-> <<82,117,108,101,68,101,108,97,121,101,100,59>>, first |-> 10740, second |-> -1], \* 'RuleDelayed;'
  [name |-> <<83,72,67,72,99,121,59>>, first |-> 1065, second |-> -1], \* 'SHCHcy;'
  [name |-> <<83,72,99,121,59>>, first |-> 1064, second |-> -1], \* 'SHcy;'
  [name |-> <<83,79,70,84,99,121,59>>, first |-> 1068, second |-> -1], \* 'SOFTcy;'
  [name |-> <<83,97,99,117,116,101,59>>, first |-> 346, second |-> -1], \* 'Sacute;'
  [name |-> <<83,99,59>>, first |-> 10940, second |-> -1], \* 'Sc;'
  [name |-> <<83,99,97,114,111,110,59>>, first |-> 352, second |-> -1], \* 'Scaron;'
  [name |-> <<83,99,101,100,105,108,59>>, first |-> 350, second |-> -1], \* 'Scedil;'
  [name |-> <<83,99,105,114,99,59>>, first |-> 348, second |-> -1], \* 'Scirc;'
  [name |-> <<83,99,121,59>>, first |-> 1057, second |-> -1], \* 'Scy;'
  [name |-> <<83,102,114,59>>, first |-> 120086, second |-> -1], \* 'Sfr;'
  [name |-> <<83,104,111,114,116,68,111,119,110,65,114,114,111,119,59>>, first |-> 8595, second |-> -1], \* 'ShortDownArrow;'
  [name |-> <<83,104,111,114,116,76,101,102,116,65,114,114,111,119,59>>, first |-> 8592, second |-> -1], \* 'ShortLeftArrow;'
  [name |-> <<83,104,111,114,116,82,105,103,104,116,65,114,114,111,119,59>>, first |-> 8594, second |-> -1], \* 'ShortRightArrow;'
  [name |-> <<83,104,111,114,116,85,112,65,114,114,111,119,59>>, first |-> 8593, second |-> -1], \* 'ShortUpArrow;'
  [name |-> <<83,105,103,109,97,59>>, first |-> 931, second |-> -1], \* 'Sigma;'
  [name |-> <<83,109,97,108,108,67,105,114,99,108,101,59>>, first |-> 8728, second |-> -1], \* 'SmallCircle;'
  [name |-> <<83,111,112,102,59>>, first |-> 120138, second |-> -1], \* 'Sopf;'
  [name |-> <<83,113,114,116,59>>, first |-> 8730, second |-> -1], \* 'Sqrt;'
  [name |-> <<83,113,117,97,114,101,59>>, first |-> 9633, second |-> -1], \* 'Square;'
  [name |-> <<83,113,117,97,114,101,73,110,116,101,114,115,101,99,116,105,111,110,59>>, first |-> 8851, second |-> -1], \* 'SquareIntersection;'
  [name |-> <<83,113,117,97,114,101,83,117,98,115,101,116,59>>, first |-> 8847, second |-> -1], \* 'SquareSubset;'
  [name |-> <<83,113,117,97,114,101,83,117,98,115,101,116,69,113,117,97,108,59>>, first |-> 8849, second |-> -1], \* 'SquareSubsetEqual;'
  [name |-> <<83,113,117,97,114,101,83,117,112,101,114,115,101,116,59>>, first |-> 8848, second |-> -1], \* 'SquareSuperset;'
  [name |-> <<83,113,117,97,114,101,83,117,112,101,114,115,101,116,69,113,117,97,108,59>>, first |-> 8850, second |-> -1], \* 'SquareSupersetEqual;'
  [name |-> <<83,113,117,97,114,101,85,110,105,111,110,59>>, first |-> 8852, second |-> -1], \* 'SquareUnion;'
  [name |-> <<83,115,99,114,59>>, first |-> 119982, second |-> -1], \* 'Sscr;'
  [name |-> <<83,116,97,114,59>>, first |-> 8902, second |-> -1], \* 'Star;'
  [name |-> <<83,117,98,59>>, first |-> 8912, second |-> -1], \* 'Sub;'
  [name |-> <<83,117,98,115,101,116,59>>, first |-> 8912, second |-> -1], \* 'Subset;'
  [name |-> <<83,117,98,115,101,116,69,113,117,97,108,59>>, first |-> 8838, second |-> -1], \* 'SubsetEqual;'
  [name |-> <<83,117,99,99,101,101,100,115,59>>, first |-> 8827, second |-> -1], \* 'Succeeds;'
  [name |-> <<83,117,99,99,101,101,100,115,69,113,117,97,108,59>>, first |-> 10928, second |-> -1], \* 'SucceedsEqual;'
  [name |-> <<83,117,99,99,101,101,100,115,83,108,97,110,116,69,113,117,97,108,59>>, first |-> 8829, second |-> -1], \* 'SucceedsSlantEqual;'
  [name |-> <<83,117,99,99,101,101,100,115,84,105,108,100,101,59>>, first |-> 8831, second |-> -1], \* 'SucceedsTilde;'
  [name |-> <<83,117,99,104,84,104,97,116,59>>, first |-> 8715, second |-> -1], \* 'SuchThat;'
  [name |-> <<83,117,109,59>>, first |-> 8721, second |-> -1], \* 'Sum;'
  [name |-> <<83,117,112,59>>, first |-> 8913, second |-> -1], \* 'Sup;'
  [name |-> <<83,117,112,101,114,115,101,116,59>>, first |-> 8835, second |-> -1], \* 'Superset;'
  [name |-> <<83,117,112,101,114,115,101,116,69,113,117,97,108,59>>, first |-> 8839, second |-> -1], \* 'SupersetEqual;'
  [name |-> <<83,117,112,115,101,116,59>>, first |-> 8913, second |-> -1], \* 'Supset;'
  [name |-> <<84,72,79,82,78,59>>, first |-> 222, second |-> -1], \* 'THORN;'
  [name |-> <<84,72,79,82,78>>, first |-> 222, second |-> -1], \* 'THORN'
  [name |-> <<84,82,65,68,69,59>>, first |-> 8482, second |-> -1], \* 'TRADE;'
  [name |-> <<84,83,72,99,121,59>>, first |-> 1035, second |-> -1], \* 'TSHcy;'
  [name |-> <<84,83,99,121,59>>, first |-> 1062, second |-> -1], \* 'TScy;'
  [name |-> <<84,97,98,59>>, first |-> 9, second |-> -1], \* 'Tab;'
  [name |-> <<84,97,117,59>>, first |-> 932, second |-> -1], \* 'Tau;'
  [name |-> <<84,99,97,114,111,110,59>>, first |-> 356, second |-> -1], \* 'Tcaron;'
  [name |-> <<84,99,101,100,105,108,59>>, first |-> 354, second |-> -1], \* 'Tcedil;'
  [name |-> <<84,99,121,59>>, first |-> 1058, second |-> -1], \* 'Tcy;'
  [name |-> <<84,102,114,59>>, first |-> 120087, second |-> -1], \* 'Tfr;'
  [name |-> <<84,104,101,114,101,102,111,114,101,59>>, first |-> 8756, second |-> -1], \* 'Therefore;'
  [name |-> <<84,104,101,116,97,59>>, first |-> 920, second |-> -1], \* 'Theta;'
  [name |-> <<84,104,105,99,107,83,112,97,99,101,59>>, first |-> 8287, second |-> 8202], \* 'ThickSpace;'
  [name |-> <<84,104,105,110,83,112,97,99,101,59>>, first |-> 8201, second |-> -1], \* 'ThinSpace;'
  [name |-> <<84,105,108,100,101,59>>, first |-> 8764, second |-> -1], \* 'Tilde;'
  [name |-> <<84,105,108,100,101,69,113,117,97,108,59>>, first |-> 8771, second |-> -1], \* 'TildeEqual;'
  [name |-> <<84,105,108,100,101,70,117,108,108,69,113,117,97,108,59>>, first |-> 8773, second |-> -1], \* 'TildeFullEqual;'
  [name |-> <<84,105,108,100,101,84,105,108,100,101,59>>, first |-> 8776, second |-> -1], \* 'TildeTilde;'
  [name |-> <<84,111,112,102,59>>, first |-> 120139, second |-> -1], \* 'Topf;'
  [name |-> <<84,114,105,112,108,101,68,111,116,59>>, first |-> 8411, second |-> -1], \* 'TripleDot;'
  [name |-> <<84,115,99,114,59>>, first |-> 119983, second |-> -1], \* 'Tscr;'
  [name |-> <<84,115,116,114,111,107,59>>, first |-> 358, second |-> -1], \* 'Tstrok;'
  [name |-> <<85,97,99,117,116,101,59>>, first |-> 218, second |-> -1], \* 'Uacute;'
  [name |-> <<85,97,99,117,116,101>>, first |-> 218, second |-> -1], \* 'Uacute'
  [name |-> <<85,97,114,114,59>>, first |-> 8607, second |-> -1], \* 'Uarr;'
  [name |-> <<85,97,114,114,111,99,105,114,59>>, first |-> 10569, second |-> -1], \* 'Uarrocir;'
  [name |-> <<85,98,114,99,121,59>>, first |-> 1038, second |-> -1], \* 'Ubrcy;'
  [name |-> <<85,98,114,101,118,101,59>>, first |-> 364, second |-> -1], \* 'Ubreve;'
  [name |-> <<85,99,105,114,99,59>>, first |-> 219, second |-> -1], \* 'Ucirc;'
  [name |-> <<85,99,105,114,99>>, first |-> 219, second |-> -1], \* 'Ucirc'
  [name |-> <<85,99,121,59>>, first |-> 1059, second |-> -1], \* 'Ucy;'
  [name |-> <<85,100,98,108,97,99,59>>, first |-> 368, second |-> -1], \* 'Udblac;'
  [name |-> <<85,102,114,59>>, first |-> 120088, second |-> -1], \* 'Ufr;'
  [name |-> <<85,103,114,97,118,101,59>>, first |-> 217, second |-> -1], \* 'Ugrave;'
  [name |-> <<85,103,114,97,118,101>>, first |-> 217, second |-> -1], \* 'Ugrave'
  [name |-> <<85,109,97,99,114,59>>, first |-> 362, second |-> -1], \* 'Umacr;'
  [name |-> <<85,110,100,101,114,66,97,114,59>>, first |-> 95, second |-> -1], \* 'UnderBar;'
  [name |-> <<85,110,100,101,114,66,114,97,99,101,59>>, first |-> 9183, second |-> -1], \* 'UnderBrace;'
  [name |-> <<85,110,100,101,114,66,114,97,99,107,101,116,59>>, first |-> 9141, second |-> -1], \* 'UnderBracket;'
  [name |-> <<85,110,100,101,114,80,97,114,101,110,116,104,101,115,105,115,59>>, first |-> 9181, second |-> -1], \* 'UnderParenthesis;'
  [name |-> <<85,110,105,111,110,59>>, first |-> 8899, second |-> -1], \* 'Union;'
  [name |-> <<85,110,105,111,110,80,108,117,115,59>>, first |-> 8846, second |-> -1], \* 'UnionPlus;'
  [name |-> <<85,111,103,111,110,59>>, first |-> 370, second |-> -1], \* 'Uogon;'
  [name |-> <<85,111,112,102,59>>, first |-> 120140, second |-> -1], \* 'Uopf;'
  [name |-> <<85,112,65,114,114,111,119,59>>, first |-> 8593, second |-> -1], \* 'UpArrow;'
  [name |-> <<85,112,65,114,114,111,119,66,97,114,59>>, first |-> 10514, second |-> -1], \* 'UpArrowBar;'
  [name |-> <<85,112,65,114,114,111,119,68,111,119,110,65,114,114,111,119,59>>, first |-> 8645, second |-> -1], \* 'UpArrowDownArrow;'
  [name |-> <<85,112,68,111,119,110,65,114,114,111,119,59>>, first |-> 8597, second |-> -1], \* 'UpDownArrow;'
  [name |-> <<85,112,69,113,117,105,108,105,98,114,105,117,109,59>>, first |-> 10606, second |-> -1], \* 'UpEquilibrium;'
  [name |-> <<85,112,84,101,101,59>>, first |-> 8869, second |-> -1], \* 'UpTee;'
  [name |-> <<85,112,84,101,101,65,114,114,111,119,59>>, first |-> 8613, second |-> -1], \* 'UpTeeArrow;'
  [name |-> <<85,112,97,114,114,111,119,59>>, first |-> 8657, second |-> -1], \* 'Uparrow;'
  [name |-> <<85,112,100,111,119,110,97,114,114,111,119,59>>, first |-> 8661, second |-> -1], \* 'Updownarrow;'
  [name |-> <<85,112,112,101,114,76,101,102,116,65,114,114,111,119,59>>, first |-> 8598, second |-> -1], \* 'UpperLeftArrow;'
  [name |-> <<85,112,112,101,114,82,105,103,104,116,65,114,114,111,119,59>>, first |-> 8599, second |-> -1], \* 'UpperRightArrow;'
  [name |-> <<85,112,115,105,59>>, first |-> 978, second |-> -1], \* 'Upsi;'
  [name |-> <<85,112,115,105,108,111,110,59>>, first |-> 933, second |-> -1], \* 'Upsilon;'
  [name |-> <<85,114,105,110,103,59>>, first |-> 366, second |-> -1], \* 'Uring;'
  [name |-> <<85,115,99,114,59>>, first |-> 119984, second |-> -1], \* 'Uscr;'
  [name |-> <<85,116,105,108,100,101,59>>, first |-> 360, second |-> -1], \* 'Utilde;'
  [name |-> <<85,117,109,108,59>>, first |-> 220, second |-> -1], \* 'Uuml;'
  [name |-> <<85,117,109,108>>, first |-> 220, second |-> -1], \* 'Uuml'
  [name |-> <<86,68,97,115,104,59>>, first |-> 8875, second |-> -1], \* 'VDash;'
  [name |-> <<86,98,97,114,59>>, first |-> 10987, second |-> -1], \* 'Vbar;'
  [name |-> <<86,99,121,59>>, first |-> 1042, second |-> -1], \* 'Vcy;'
  [name |-> <<86,100,97,115,104,59>>, first |-> 8873, second |-> -1], \* 'Vdash;'
  [name |-> <<86,100,97,115,104,108,59>>, first |-> 10982, second |-> -1], \* 'Vdashl;'
  [name |-> <<86,101,101,59>>, first |-> 8897, second |-> -1], \* 'Vee;'
  [name |-> <<86,101,114,98,97,114,59>>, first |-> 8214, second |-> -1], \* 'Verbar;'
  [name |-> <<86,101,114,116,59>>, first |-> 8214, second |-> -1], \* 'Vert;'
  [name |-> <<86,101,114,116,105,99,97,108,66,97,114,59>>, first |-> 8739, second |-> -1], \* 'VerticalBar;'
  [name |-> <<86,101,114,116,105,99,97,108,76,105,110,101,59>>, first |-> 124, second |-> -1], \* 'VerticalLine;'
  [name |-> <<86,101,114,116,105,99,97,108,83,101,112,97,114,97,116,111,114,59>>, first |-> 10072, second |-> -1], \* 'VerticalSeparator;'
  [name |-> <<86,101,114,116,105,99,97,108,84,105,108,100,101,59>>, first |-> 8768, second |-> -1], \* 'VerticalTilde;'
  [name |-> <<86,101,114,121,84,104,105,110,83,112,97,99,101,59>>, first |-> 8202, second |-> -1], \* 'VeryThinSpace;'
  [name |-> <<86,102,114,59>>, first |-> 120089, second |-> -1], \* 'Vfr;'
  [name |-> <<86,111,112,102,59>>, first |-> 120141, second |-> -1], \* 'Vopf;'
  [name |-> <<86,115,99,114,59>>, first |-> 119985, second |-> -1], \* 'Vscr;'
  [name |-> <<86,118,100,97,115,104,59>>, first |-> 8874, second |-> -1], \* 'Vvdash;'
  [name |-> <<87,99,105,114,99,59>>, first |-> 372, second |-> -1], \* 'Wcirc;'
  [name |-> <<87,101,100,103,101,59>>, first |-> 8896, second |-> -1], \* 'Wedge;'
  [name |-> <<87,102,114,59>>, first |-> 120090, second |-> -1], \* 'Wfr;'
  [name |-> <<87,111,112,102,59>>, first |-> 120142, second |-> -1], \* 'Wopf;'
  [name |-> <<87,115,99,114,59>>, first |-> 119986, second |-> -1], \* 'Wscr;'
  [name |-> <<88,102,114,59>>, first |-> 120091, second |-> -1], \* 'Xfr;'
  [name |-> <<88,105,59>>, first |-> 926, second |-> -1], \* 'Xi;'
  [name |-> <<88,111,112,102,59>>, first |-> 120143, second |-> -1], \* 'Xopf;'
  [name |-> <<88,115,99,114,59>>, first |-> 119987, second |-> -1], \* 'Xscr;'
  [name |-> <<89,65,99,121,59>>, first |-> 1071, second |-> -1], \* 'YAcy;'
  [name |-> <<89,73,99,121,59>>, first |-> 1031, second |-> -1], \* 'YIcy;'
  [name |-> <<89,85,99,121,59>>, first |-> 1070, second |-> -1], \* 'YUcy;'
  [name |-> <<89,97,99,117,116,101,59>>, first |-> 221, second |-> -1], \* 'Yacute;'
  [name |-> <<89,97,99,117,116,101>>, first |-> 221, second |-> -1], \* 'Yacute'
  [name |-> <<89,99,105,114,99,59>>, first |-> 374, second |-> -1], \* 'Ycirc;'
  [name |-> <<89,99,121,59>>, first |-> 1067, second |-> -1], \* 'Ycy;'
  [name |-> <<89,102,114,59>>, first |-> 120092, second |-> -1], \* 'Yfr;'
  [name |-> <<89,111,112,102,59>>, first |-> 120144, second |-> -1], \* 'Yopf;'
  [name |-> <<89,115,99,114,59>>, first |-> 119988, second |-> -1], \* 'Yscr;'
  [name |-> <<89,117,109,108,59>>, first |-> 376, second |-> -1], \* 'Yuml;'
  [name |-> <<90,72,99,121,59>>, first |-> 1046, second |-> -1], \* 'ZHcy;'
  [name |-> <<90,97,99,117,116,101,59>>, first |-> 377, second |-> -1], \* 'Zacute;'
  [name |-> <<90,99,97,114,111,110,59>>, first |-> 381, second |-> -1], \* 'Zcaron;'
  [name |-> <<90,99,121,59>>, first |-> 1047, second |-> -1], \* 'Zcy;'
  [name |-> <<90,100,111,116,59>>, first |-> 379, second |-> -1], \* 'Zdot;'
  [name |-> <<90,101,114,111,87,105,100,116,104,83,112,97,99,101,59>>, first |-> 8203, second |-> -1], \* 'ZeroWidthSpace;'
  [name |-> <<90,101,116,97,59>>, first |-> 918, second |-> -1], \* 'Zeta;'
  [name |-> <<90,102,114,59>>, first |-> 8488, second |-> -1], \* 'Zfr;'
  [name |-> <<90,111,112,102,59>>, first |-> 8484, second |-> -1], \* 'Zopf;'
  [name |-> <<90,115,99,114,59>>, first |-> 119989, second |-> -1], \* 'Zscr;'
  [name |-> <<97,97,99,117,116,101,59>>, first |-> 225, second |-> -1], \* 'aacute;'
  [name |-> <<97,97,99,117,116,101>>, first |-> 225, second |-> -1], \* 'aacute'
  [name |-> <<97,98,114,101,118,101,59>>, first |-> 259, second |-> -1], \* 'abreve;'
  [name |-> <<97,99,59>>, first |-> 8766, second |-> -1], \* 'ac;'
  [name |-> <<97,99,69,59>>, first |-> 8766, second |-> 819], \* 'acE;'
  [name |-> <<97,99,100,59>>, first |-> 8767, second |-> -1], \* 'acd;'
  [name |-> <<97,99,105,114,99,59>>, first |-> 226, second |-> -1], \* 'acirc;'
  [name |-> <<97,99,105,114,99>>, first |-> 226, second |-> -1], \* 'acirc'
  [name |-> <<97,99,117,116,101,59>>, first |-> 180, second |-> -1], \* 'acute;'
  [name |-> <<97,99,117,116,101>>, first |-> 180, second |-> -1], \* 'acute'
  [name |-> <<97,99,121,59>>, first |-> 1072, second |-> -1], \* 'acy;'
  [name |-> <<97,101,108,105,103,59>>, first |-> 230, second |-> -1], \* 'aelig;'
  [name |-> <<97,101,108,105,103>>, first |-> 230, second |-> -1], \* 'aelig'
  [name |-> <<97,102,59>>, first |-> 8289, second |-> -1], \* 'af;'
  [name |-> <<97,102,114,59>>, first |-> 120094, second |-> -1], \* 'afr;'
  [name |-> <<97,103,114,97,118,101,59>>, first |-> 224, second |-> -1], \* 'agrave;'
  [name |-> <<97,103,114,97,118,101>>, first |-> 224, second |-> -1], \* 'agrave'
  [name |-> <<97,108,101,102,115,121,109,59>>, first |-> 8501, second |-> -1], \* 'alefsym;'
  [name |-> <<97,108,101,112,104,59>>, first |-> 8501, second |-> -1], \* 'aleph;'
  [name |-> <<97,108,112,104,97,59>>, first |-> 945, second |-> -1], \* 'alpha;'
  [name |-> <<97,109,97,99,114,59>>, first |-> 257, second |-> -1], \* 'amacr;'
  [name |-> <<97,109,97,108,103,59>>, first |-> 10815, second |-> -1], \* 'amalg;'
  [name |-> <<97,109,112,59>>, first |-> 38, second |-> -1], \* 'amp;'
  [name |-> <<97,109,112>>, first |-> 38, second |-> -1], \* 'amp'
  [name |-> <<97,110,100,59>>, first |-> 8743, second |-> -1], \* 'and;'
  [name |-> <<97,110,100,97,110,100,59>>, first |-> 10837, second |-> -1], \* 'andand;'
  [name |-> <<97,110,100,100,59>>, first |-> 10844, second |-> -1], \* 'andd;'
  [name |-> <<97,110,100,115,108,111,112,101,59>>, first |-> 10840, second |-> -1], \* 'andslope;'
  [name |-> <<97,110,100,118,59>>, first |-> 10842, second |-> -1], \* 'andv;'
  [name |-> <<97,110,103,59>>, first |-> 8736, second |-> -1], \* 'ang;'
  [name |-> <<97,110,103,101,59>>, first |-> 10660, second |-> -1], \* 'ange;'
  [name |-> <<97,110,103,108,101,59>>, first |-> 8736, second |-> -1], \* 'angle;'
  [name |-> <<97,110,103,109,115,100,59>>, first |-> 8737, second |-> -1], \* 'angmsd;'
  [name |-> <<97,110,103,109,115,100,97,97,59>>, first |-> 10664, second |-> -1], \* 'angmsdaa;'
  [name |-> <<97,110,103,109,115,100,97,98,59>>, first |-> 10665, second |-> -1], \* 'angmsdab;'
  [name |-> <<97,110,103,109,115,100,97,99,59>>, first |-> 10666, second |-> -1], \* 'angmsdac;'
  [name |-> <<97,110,103,109,115,100,97,100,59>>, first |-> 10667, second |-> -1], \* 'angmsdad;'
  [name |-> <<97,110,103,109,115,100,97,101,59>>, first |-> 10668, second |-> -1], \* 'angmsdae;'
  [name |-> <<97,110,103,109,115,100,97,102,59>>, first |-> 10669, second |-> -1], \* 'angmsdaf;'
  [name |-> <<97,110,103,109,115,100,97,103,59>>, first |-> 10670, second |-> -1], \* 'angmsdag;'
  [name |-> <<97,110,103,109,115,100,97,104,59>>, first |-> 10671, second |-> -1], \* 'angmsdah;'
  [name |-> <<97,110,103,114,116,59>>, first |-> 8735, second |-> -1], \* 'angrt;'
  [name |-> <<97,110,103,114,116,118,98,59>>, first |-> 8894, second |-> -1], \* 'angrtvb;'
  [name |-> <<97,110,103,114,116,118,98,100,59>>, first |-> 10653, second |-> -1], \* 'angrtvbd;'
  [name |-> <<97,110,103,115,112,104,59>>, first |-> 8738, second |-> -1], \* 'angsph;'
  [name |-> <<97,110,103,115,116,59>>, first |-> 197, second |-> -1], \* 'angst;'
  [name |-> <<97,110,103,122,97,114,114,59>>, first |-> 9084, second |-> -1], \* 'angzarr;'
  [name |-> <<97,111,103,111,110,59>>, first |-> 261, second |-> -1], \* 'aogon;'
  [name |-> <<97,111,112,102,59>>, first |-> 120146, second |-> -1], \* 'aopf;'
  [name |-> <<97,112,59>>, first |-> 8776, second |-> -1], \* 'ap;'
  [name |-> <<97,112,69,59>>, first |-> 10864, second |-> -1], \* 'apE;'
  [name |-> <<97,112,97,99,105,114,59>>, first |-> 10863, second |-> -1], \* 'apacir;'
  [name |-> <<97,112,101,59>>, first |-> 8778, second |-> -1], \* 'ape;'
  [name |-> <<97,112,105,100,59>>, first |-> 8779, second |-> -1], \* 'apid;'
  [name |-> <<97,112,111,115,59>>, first |-> 39, second |-> -1], \* 'apos;'
  [name |-> <<97,112,112,114,111,120,59>>, first |-> 8776, second |-> -1], \* 'approx;'
  [name |-> <<97,112,112,114,111,120,101,113,59>>, first |-> 8778, second |-> -1], \* 'approxeq;'
  [name |-> <<97,114,105,110,103,59>>, first |-> 229, second |-> -1], \* 'aring;'
  [name |-> <<97,114,105,110,103>>, first |-> 229, second |-> -1], \* 'aring'
  [name |-> <<97,115,99,114,59>>, first |-> 119990, second |-> -1], \* 'ascr;'
  [name |-> <<97,115,116,59>>, first |-> 42, second |-> -1], \* 'ast;'
  [name |-> <<97,115,121,109,112,59>>, first |-> 8776, second |-> -1], \* 'asymp;'
  [name |-> <<97,115,121,109,112,101,113,59>>, first |-> 8781, second |-> -1], \* 'asympeq;'
  [name |-> <<97,116,105,108,100,101,59>>, first |-> 227, second |-> -1], \* 'atilde;'
  [name |-> <<97,116,105,108,100,101>>, first |-> 227, second |-> -1], \* 'atilde'
  [name |-> <<97,117,109,108,59>>, first |-> 228, second |-> -1], \* 'auml;'
  [name |-> <<97,117,109,108>>, first |-> 228, second |-> -1], \* 'auml'
  [name |-> <<97,119,99,111,110,105,110,116,59>>, first |-> 8755, second |-> -1], \* 'awconint;'
  [name |-> <<97,119,105,110,116,59>>, first |-> 10769, second |-> -1], \* 'awint;'
  [name |-> <<98,78,111,116,59>>, first |-> 10989, second |-> -1], \* 'bNot;'
  [name |-> <<98,97,99,107,99,111,110,103,59>>, first |-> 8780, second |-> -1], \* 'backcong;'
  [name |-> <<98,97,99,107,101,112,115,105,108,111,110,59>>, first |-> 1014, second |-> -1], \* 'backepsilon;'
  [name |-> <<98,97,99,107,112,114,105,109,101,59>>, first |-> 8245, second |-> -1], \* 'backprime;'
  [name |-> <<98,97,99,107,115,105,109,59>>, first |-> 8765, second |-> -1], \* 'backsim;'
  [name |-> <<98,97,99,107,115,105,109,101,113,59>>, first |-> 8909, second |-> -1], \* 'backsimeq;'
  [name |-> <<98,97,114,118,101,101,59>>, first |-> 8893, second |-> -1], \* 'barvee;'
  [name |-> <<98,97,114,119,101,100,59>>, first |-> 8965, second |-> -1], \* 'barwed;'
  [name |-> <<98,97,114,119,101,100,103,101,59>>, first |-> 8965, second |-> -1], \* 'barwedge;'
  [name |-> <<98,98,114,107,59>>, first |-> 9141, second |-> -1], \* 'bbrk;'
  [name |-> <<98,98,114,107,116,98,114,107,59>>, first |-> 9142, second |-> -1], \* 'bbrktbrk;'
  [name |-> <<98,99,111,110,103,59>>, first |-> 8780, second |-> -1], \* 'bcong;'
  [name |-> <<98,99,121,59>>, first |-> 1073, second |-> -1], \* 'bcy;'
  [name |-> <<98,100,113,117,111,59>>, first |-> 8222, second |-> -1], \* 'bdquo;'
  [name |-> <<98,101,99,97,117,115,59>>, first |-> 8757, second |-> -1], \* 'becaus;'
  [name |-> <<98,101,99,97,117,115,101,59>>, first |-> 8757, second |-> -1], \* 'because;'
  [name |-> <<98,101,109,112,116,121,118,59>>, first |-> 10672, second |-> -1], \* 'bemptyv;'
  [name |-> <<98,101,112,115,105,59>>, first |-> 1014, second |-> -1], \* 'bepsi;'
  [name |-> <<98,101,114,110,111,117,59>>, first |-> 8492, second |-> -1], \* 'bernou;'
  [name |-> <<98,101,116,97,59>>, first |-> 946, second |-> -1], \* 'beta;'
  [name |-> <<98,101,116,104,59>>, first |-> 8502, second |-> -1], \* 'beth;'
  [name |-> <<98,101,116,119,101,101,110,59>>, first |-> 8812, second |-> -1], \* 'between;'
  [name |-> <<98,102,114,59>>, first |-> 120095, second |-> -1], \* 'bfr;'
  [name |-> <<98,105,103,99,97,112,59>>, first |-> 8898, second |-> -1], \* 'bigcap;'
  [name |-> <<98,105,103,99,105,114,99,59>>, first |-> 9711, second |-> -1], \* 'bigcirc;'
  [name |-> <<98,105,103,99,117,112,59>>, first |-> 8899, second |-> -1], \* 'bigcup;'
  [name |-> <<98,105,103,111,100,111,116,59>>, first |-> 10752, second |-> -1], \* 'bigodot;'
  [name |-> <<98,105,103,111,112,108,117,115,59>>, first |-> 10753, second |-> -1], \* 'bigoplus;'
  [name |-> <<98,105,103,111,116,105,109,101,115,59>>, first |-> 10754, second |-> -1], \* 'bigotimes;'
  [name |-> <<98,105,103,115,113,99,117,112,59>>, first |-> 10758, second |-> -1], \* 'bigsqcup;'
  [name |-> <<98,105,103,115,116,97,114,59>>, first |-> 9733, second |-> -1], \* 'bigstar;'
  [name |-> <<98,105,103,116,114,105,97,110,103,108,101,100,111,119,110,59>>, first |-> 9661, second |-> -1], \* 'bigtriangledown;'
  [name |-> <<98,105,103,116,114,105,97,110,103,108,101,117,112,59>>, first |-> 9651, second |-> -1], \* 'bigtriangleup;'
  [name |-> <<98,105,103,117,112,108,117,115,59>>, first |-> 10756, second |-> -1], \* 'biguplus;'
  [name |-> <<98,105,103,118,101,101,59>>, first |-> 8897, second |-> -1], \* 'bigvee;'
  [name |-> <<98,105,103,119,101,100,103,101,59>>, first |-> 8896, second |-> -1], \* 'bigwedge;'
  [name |-> <<98,107,97,114,111,119,59>>, first |-> 10509, second |-> -1], \* 'bkarow;'
  [name |-> <<98,108,97,99,107,108,111,122,101,110,103,101,59>>, first |-> 10731, second |-> -1], \* 'blacklozenge;'
  [name |-> <<98,108,97,99,107,115,113,117,97,114,101,59>>, first |-> 9642, second |-> -1], \* 'blacksquare;'
  [name |-> <<98,108,97,99,107,116,114,105,97,110,103,108,101,59>>, first |-> 9652, second |-> -1], \* 'blacktriangle;'
  [name |-> <<98,108,97,99,107,116,114,105,97,110,103,108,101,100,111,119,110,59>>, first |-> 9662, second |-> -1], \* 'blacktriangledown;'
  [name |-> <<98,108,97,99,107,116,114,105,97,110,103,108,101,108,101,102,116,59>>, first |-> 9666, second |-> -1], \* 'blacktriangleleft;'
  [name |-> <<98,108,97,99,107,116,114,105,97,110,103,108,101,114,105,103,104,116,59>>, first |-> 9656, second |-> -1], \* 'blacktriangleright;'
  [name |-> <<98,108,97,110,107,59>>, first |-> 9251, second |-> -1], \* 'blank;'
  [name |-> <<98,108,107,49,50,59>>, first |-> 9618, second |-> -1], \* 'blk12;'
  [name |-> <<98,108,107,49,52,59>>, first |-> 9617, second |-> -1], \* 'blk14;'
  [name |-> <<98,108,107,51,52,59>>, first |-> 9619, second |-> -1], \* 'blk34;'
  [name |-> <<98,108,111,99,107,59>>, first |-> 9608, second |-> -1], \* 'block;'
  [name |-> <<98,110,101,59>>, first |-> 61, second |-> 8421], \* 'bne;'
  [name |-> <<98,110,101,113,117,105,118,59>>, first |-> 8801, second |-> 8421], \* 'bnequiv;'
  [name |-> <<98,110,111,116,59>>, first |-> 8976, second |-> -1], \* 'bnot;'
  [name |-> <<98,111,112,102,59>>, first |-> 120147, second |-> -1], \* 'bopf;'
  [name |-> <<98,111,116,59>>, first |-> 8869, second |-> -1], \* 'bot;'
  [name |-> <<98,111,116,116,111,109,59>>, first |-> 8869, second |-> -1], \* 'bottom;'
  [name |-> <<98,111,119,116,105,101,59>>, first |-> 8904, second |-> -1], \* 'bowtie;'
  [name |-> <<98,111,120,68,76,59>>, first |-> 9559, second |-> -1], \* 'boxDL;'
  [name |-> <<98,111,120,68,82,59>>, first |-> 9556, second |-> -1], \* 'boxDR;'
  [name |-> <<98,111,120,68,108,59>>, first |-> 9558, second |-> -1], \* 'boxDl;'
  [name |-> <<98,111,120,68,114,59>>, first |-> 9555, second |-> -1], \* 'boxDr;'
  [name |-> <<98,111,120,72,59>>, first |-> 9552, second |-> -1], \* 'boxH;'
  [name |-> <<98,111,120,72,68,59>>, first |-> 9574, second |-> -1], \* 'boxHD;'
  [name |-> <<98,111,120,72,85,59>>, first |-> 9577, second |-> -1], \* 'boxHU;'
  [name |-> <<98,111,120,72,100,59>>, first |-> 9572, second |-> -1], \* 'boxHd;'
  [name |-> <<98,111,120,72,117,59>>, first |-> 9575, second |-> -1], \* 'boxHu;'
  [name |-> <<98,111,120,85,76,59>>, first |-> 9565, second |-> -1], \* 'boxUL;'
  [name |-> <<98,111,120,85,82,59>>, first |-> 9562, second |-> -1], \* 'boxUR;'
  [name |-> <<98,111,120,85,108,59>>, first |-> 9564, second |-> -1], \* 'boxUl;'
  [name |-> <<98,111,120,85,114,59>>, first |-> 9561, second |-> -1], \* 'boxUr;'
  [name |-> <<98,111,120,86,59>>, first |-> 9553, second |-> -1], \* 'boxV;'
  [name |-> <<98,111,120,86,72,59>>, first |-> 9580, second |-> -1], \* 'boxVH;'
  [name |-> <<98,111,120,86,76,59>>, first |-> 9571, second |-> -1], \* 'boxVL;'
  [name |-> <<98,111,120,86,82,59>>, first |-> 9568, second |-> -1], \* 'boxVR;'
  [name |-> <<98,111,120,86,104,59>>, first |-> 9579, second |-> -1], \* 'boxVh;'
  [name |-> <<98,111,120,86,108,59>>, first |-> 9570, second |-> -1], \* 'boxVl;'
  [name |-> <<98,111,120,86,114,59>>, first |-> 9567, second |-> -1], \* 'boxVr;'
  [name |-> <<98,111,120,98,111,120,59>>, first |-> 10697, second |-> -1], \* 'boxbox;'
  [name |-> <<98,111,120,100,76,59>>, first |-> 9557, second |-> -1], \* 'boxdL;'
  [name |-> <<98,111,120,100,82,59>>, first |-> 9554, second |-> -1], \* 'boxdR;'
  [name |-> <<98,111,120,100,108,59>>, first |-> 9488, second |-> -1], \* 'boxdl;'
  [name |-> <<98,111,120,100,114,59>>, first |-> 9484, second |-> -1], \* 'boxdr;'
  [name |-> <<98,111,120,104,59>>, first |-> 9472, second |-> -1], \* 'boxh;'
  [name |-> <<98,111,120,104,68,59>>, first |-> 9573, second |-> -1], \* 'boxhD;'
  [name |-> <<98,111,120,104,85,59>>, first |-> 9576, second |-> -1], \* 'boxhU;'
  [name |-> <<98,111,120,104,100,59>>, first |-> 9516, second |-> -1], \* 'boxhd;'
  [name |-> <<98,111,120,104,117,59>>, first |-> 9524, second |-> -1], \* 'boxhu;'
  [name |-> <<98,111,120,109,105,110,117,115,59>>, first |-> 8863, second |-> -1], \* 'boxminus;'
  [name |-> <<98,111,120,112,108,117,115,59>>, first |-> 8862, second |-> -1], \* 'boxplus;'
  [name |-> <<98,111,120,116,105,109,101,115,59>>, first |-> 8864, second |-> -1], \* 'boxtimes;'
  [name |-> <<98,111,120,117,76,59>>, first |-> 9563, second |-> -1], \* 'boxuL;'
  [name |-> <<98,111,120,117,82,59>>, first |-> 9560, second |-> -1], \* 'boxuR;'
  [name |-> <<98,111,120,117,108,59>>, first |-> 9496, second |-> -1], \* 'boxul;'
  [name |-> <<98,111,120,117,114,59>>, first |-> 9492, second |-> -1], \* 'boxur;'
  [name |-> <<98,111,120,118,59>>, first |-> 9474, second |-> -1], \* 'boxv;'
  [name |-> <<98,111,120,118,72,59>>, first |-> 9578, second |-> -1], \* 'boxvH;'
  [name |-> <<98,111,120,118,76,59>>, first |-> 9569, second |-> -1], \* 'boxvL;'
  [name |-> <<98,111,120,118,82,59>>, first |-> 9566, second |-> -1], \* 'boxvR;'
  [name |-> <<98,111,120,118,104,59>>, first |-> 9532, second |-> -1], \* 'boxvh;'
  [name |-> <<98,111,120,118,108,59>>, first |-> 9508, second |-> -1], \* 'boxvl;'
  [name |-> <<98,111,120,118,114,59>>, first |-> 9500, second |-> -1], \* 'boxvr;'
  [name |-> <<98,112,114,105,109,101,59>>, first |-> 8245, second |-> -1], \* 'bprime;'
  [name |-> <<98,114,101,118,101,59>>, first |-> 728, second |-> -1], \* 'breve;'
  [name |-> <<98,114,118,98,97,114,59>>, first |-> 166, second |-> -1], \* 'brvbar;'
  [name |-> <<98,114,118,98,97,114>>, first |-> 166, second |-> -1], \* 'brvbar'
  [name |-> <<98,115,99,114,59>>, first |-> 119991, second |-> -1], \* 'bscr;'
  [name |-> <<98,115,101,109,105,59>>, first |-> 8271, second |-> -1], \* 'bsemi;'
  [name |-> <<98,115,105,109,59>>, first |-> 8765, second |-> -1], \* 'bsim;'
  [name |-> <<98,115,105,109,101,59>>, first |-> 8909, second |-> -1], \* 'bsime;'
  [name |-> <<98,115,111,108,59>>, first |-> 92, second |-> -1], \* 'bsol;'
  [name |-> <<98,115,111,108,98,59>>, first |-> 10693, second |-> -1], \* 'bsolb;'
  [name |-> <<98,115,111,108,104,115,117,98,59>>, first |-> 10184, second |-> -1], \* 'bsolhsub;'
  [name |-> <<98,117,108,108,59>>, first |-> 8226, second |-> -1], \* 'bull;'
  [name |-> <<98,117,108,108,101,116,59>>, first |-> 8226, second |-> -1], \* 'bullet;'
  [name |-> <<98,117,109,112,59>>, first |-> 8782, second |-> -1], \* 'bump;'
  [name |-> <<98,117,109,112,69,59>>, first |-> 10926, second |-> -1], \* 'bumpE;'
  [name |-> <<98,117,109,112,101,59>>, first |-> 8783, second |-> -1], \* 'bumpe;'
  [name |-> <<98,117,109,112,101,113,59>>, first |-> 8783, second |-> -1], \* 'bumpeq;'
  [name |-> <<99,97,99,117,116,101,59>>, first |-> 263, second |-> -1], \* 'cacute;'
  [name |-> <<99,97,112,59>>, first |-> 8745, second |-> -1], \* 'cap;'
  [name |-> <<99,97,112,97,110,100,59>>, first |-> 10820, second |-> -1], \* 'capand;'
  [name |-> <<99,97,112,98,114,99,117,112,59>>, first |-> 10825, second |-> -1], \* 'capbrcup;'
  [name |-> <<99,97,112,99,97,112,59>>, first |-> 10827, second |-> -1], \* 'capcap;'
  [name |-> <<99,97,112,99,117,112,59>>, first |-> 10823, second |-> -1], \* 'capcup;'
  [name |-> <<99,97,112,100,111,116,59>>, first |-> 10816, second |-> -1], \* 'capdot;'
  [name |-> <<99,97,112,115,59>>, first |-> 8745, second |-> 65024], \* 'caps;'
  [name |-> <<99,97,114,101,116,59>>, first |-> 8257, second |-> -1], \* 'caret;'
  [name |-> <<99,97,114,111,110,59>>, first |-> 711, second |-> -1], \* 'caron;'
  [name |-> <<99,99,97,112,115,59>>, first |-> 10829, second |-> -1], \* 'ccaps;'
  [name |-> <<99,99,97,114,111,110,59>>, first |-> 269, second |-> -1], \* 'ccaron;'
  [name |-> <<99,99,101,100,105,108,59>>, first |-> 231, second |-> -1], \* 'ccedil;'
  [name |-> <<99,99,101,100,105,108>>, first |-> 231, second |-> -1], \* 'ccedil'
  [name |-> <<99,99,105,114,99,59>>, first |-> 265, second |-> -1], \* 'ccirc;'
  [name |-> <<99,99,117,112,115,59>>, first |-> 10828, second |-> -1], \* 'ccups;'
  [name |-> <<99,99,117,112,115,115,109,59>>, first |-> 10832, second |-> -1], \* 'ccupssm;'
  [name |-> <<99,100,111,116,59>>, first |-> 267, second |-> -1], \* 'cdot;'
  [name |-> <<99,101,100,105,108,59>>, first |-> 184, second |-> -1], \* 'cedil;'
  [name |-> <<99,101,100,105,108>>, first |-> 184, second |-> -1], \* 'cedil'
  [name |-> <<99,101,109,112,116,121,118,59>>, first |-> 10674, second |-> -1], \* 'cemptyv;'
  [name |-> <<99,101,110,116,59>>, first |-> 162, second |-> -1], \* 'cent;'
  [name |-> <<99,101,110,116>>, first |-> 162, second |-> -1], \* 'cent'
  [name |-> <<99,101,110,116,101,114,100,111,116,59>>, first |-> 183, second |-> -1], \* 'centerdot;'
  [name |-> <<99,102,114,59>>, first |-> 120096, second |-> -1], \* 'cfr;'
  [name |-> <<99,104,99,121,59>>, first |-> 1095, second |-> -1], \* 'chcy;'
  [name |-> <<99,104,101,99,107,59>>, first |-> 10003, second |-> -1], \* 'check;'
  [name |-> <<99,104,101,99,107,109,97,114,107,59>>, first |-> 10003, second |-> -1], \* 'checkmark;'
  [name |-> <<99,104,105,59>>, first |-> 967, second |-> -1], \* 'chi;'
  [name |-> <<99,105,114,59>>, first |-> 9675, second |-> -1], \* 'cir;'
  [name |-> <<99,105,114,69,59>>, first |-> 10691, second |-> -1], \* 'cirE;'
  [name |-> <<99,105,114,99,59>>, first |-> 710, second |-> -1], \* 'circ;'
  [name |-> <<99,105,114,99,101,113,59>>, first |-> 8791, second |-> -1], \* 'circeq;'
  [name |-> <<99,105,114,99,108,101,97,114,114,111,119,108,101,102,116,59>>, first |-> 8634, second |-> -1], \* 'circlearrowleft;'
  [name |-> <<99,105,114,99,108,101,97,114,114,111,119,114,105,103,104,116,59>>, first |-> 8635, second |-> -1], \* 'circlearrowright;'
  [name |-> <<99,105,114,99,108,101,100,82,59>>, first |-> 174, second |-> -1], \* 'circledR;'
  [name |-> <<99,105,114,99,108,101,100,83,59>>, first |-> 9416, second |-> -1], \* 'circledS;'
  [name |-> <<99,105,114,99,108,101,100,97,115,116,59>>, first |-> 8859, second |-> -1], \* 'circledast;'
  [name |-> <<99,105,114,99,108,101,100,99,105,114,99,59>>, first |-> 8858, second |-> -1], \* 'circledcirc;'
  [name |-> <<99,105,114,99,108,101,100,100,97,115,104,59>>, first |-> 8861, second |-> -1], \* 'circleddash;'
  [name |-> <<99,105,114,101,59>>, first |-> 8791, second |-> -1], \* 'cire;'
  [name |-> <<99,105,114,102,110,105,110,116,59>>, first |-> 10768, second |-> -1], \* 'cirfnint;'
  [name |-> <<99,105,114,109,105,100,59>>, first |-> 10991, second |-> -1], \* 'cirmid;'
  [name |-> <<99,105,114,115,99,105,114,59>>, first |-> 10690, second |-> -1], \* 'cirscir;'
  [name |-> <<99,108,117,98,115,59>>, first |-> 9827, second |-> -1], \* 'clubs;'
  [name |-> <<99,108,117,98,115,117,105,116,59>>, first |-> 9827, second |-> -1], \* 'clubsuit;'
  [name |-> <<99,111,108,111,110,59>>, first |-> 58, second |-> -1], \* 'colon;'
  [name |-> <<99,111,108,111,110,101,59>>, first |-> 8788, second |-> -1], \* 'colone;'
  [name |-> <<99,111,108,111,110,101,113,59>>, first |-> 8788, second |-> -1], \* 'coloneq;'
  [name |-> <<99,111,109,109,97,59>>, first |-> 44, second |-> -1], \* 'comma;'
  [name |-> <<99,111,109,109,97,116,59>>, first |-> 64, second |-> -1], \* 'commat;'
  [name |-> <<99,111,109,112,59>>, first |-> 8705, second |-> -1], \* 'comp;'
  [name |-> <<99,111,109,112,102,110,59>>, first |-> 8728, second |-> -1], \* 'compfn;'
  [name |-> <<99,111,109,112,108,101,109,101,110,116,59>>, first |-> 8705, second |-> -1], \* 'complement;'
  [name |-> <<99,111,109,112,108,101,120,101,115,59>>, first |-> 8450, second |-> -1], \* 'complexes;'
  [name |-> <<99,111,110,103,59>>, first |-> 8773, second |-> -1], \* 'cong;'
  [name |-> <<99,111,110,103,100,111,116,59>>, first |-> 10861, second |-> -1], \* 'congdot;'
  [name |-> <<99,111,110,105,110,116,59>>, first |-> 8750, second |-> -1], \* 'conint;'
  [name |-> <<99,111,112,102,59>>, first |-> 120148, second |-> -1], \* 'copf;'
  [name |-> <<99,111,112,114,111,100,59>>, first |-> 8720, second |-> -1], \* 'coprod;'
  [name |-> <<99,111,112,121,59>>, first |-> 169, second |-> -1], \* 'copy;'
  [name |-> <<99,111,112,121>>, first |-> 169, second |-> -1], \* 'copy'
  [name |-> <<99,111,112,121,115,114,59>>, first |-> 8471, second |-> -1], \* 'copysr;'
  [name |-> <<99,114,97,114,114,59>>, first |-> 8629, second |-> -1], \* 'crarr;'
  [name |-> <<99,114,111,115,115,59>>, first |-> 10007, second |-> -1], \* 'cross;'
  [name |-> <<99,115,99,114,59>>, first |-> 119992, second |-> -1], \* 'cscr;'
  [name |-> <<99,115,117,98,59>>, first |-> 10959, second |-> -1], \* 'csub;'
  [name |-> <<99,115,117,98,101,59>>, first |-> 10961, second |-> -1], \* 'csube;'
  [name |-> <<99,115,117,112,59>>, first |-> 10960, second |-> -1], \* 'csup;'
  [name |-> <<99,115,117,112,101,59>>, first |-> 10962, second |-> -1], \* 'csupe;'
  [name |-> <<99,116,100,111,116,59>>, first |-> 8943, second |-> -1], \* 'ctdot;'
  [name |-> <<99,117,100,97,114,114,108,59>>, first |-> 10552, second |-> -1], \* 'cudarrl;'
  [name |-> <<99,117,100,97,114,114,114,59>>, first |-> 10549, second |-> -1], \* 'cudarrr;'
  [name |-> <<99,117,101,112,114,59>>, first |-> 8926, second |-> -1], \* 'cuepr;'
  [name |-> <<99,117,101,115,99,59>>, first |-> 8927, second |-> -1], \* 'cuesc;'
  [name |-> <<99,117,108,97,114,114,59>>, first |-> 8630, second |-> -1], \* 'cularr;'
  [name |-> <<99,117,108,97,114,114,112,59>>, first |-> 10557, second |-> -1], \* 'cularrp;'
  [name |-> <<99,117,112,59>>, first |-> 8746, second |-> -1], \* 'cup;'
  [name |-> <<99,117,112,98,114,99,97,112,59>>, first |-> 10824, second |-> -1], \* 'cupbrcap;'
  [name |-> <<99,117,112,99,97,112,59>>, first |-> 10822, second |-> -1], \* 'cupcap;'
  [name |-> <<99,117,112,99,117,112,59>>, first |-> 10826, second |-> -1], \* 'cupcup;'
  [name |-> <<99,117,112,100,111,116,59>>, first |-> 8845, second |-> -1], \* 'cupdot;'
  [name |-> <<99,117,112,111,114,59>>, first |-> 10821, second |-> -1], \* 'cupor;'
  [name |-> <<99,117,112,115,59>>, first |-> 8746, second |-> 65024], \* 'cups;'
  [name |-> <<99,117,114,97,114,114,59>>, first |-> 8631, second |-> -1], \* 'curarr;'
  [name |-> <<99,117,114,97,114,114,109,59>>, first |-> 10556, second |-> -1], \* 'curarrm;'
  [name |-> <<99,117,114,108,121,101,113,112,114,101,99,59>>, first |-> 8926, second |-> -1], \* 'curlyeqprec;'
  [name |-> <<99,117,114,108,121,101,113,115,117,99,99,59>>, first |-> 8927, second |-> -1], \* 'curlyeqsucc;'
  [name |-> <<99,117,114,108,121,118,101,101,59>>, first |-> 8910, second |-> -1], \* 'curlyvee;'
  [name |-> <<99,117,114,108,121,119,101,100,103,101,59>>, first |-> 8911, second |-> -1], \* 'curlywedge;'
  [name |-> <<99,117,114,114,101,110,59>>, first |-> 164, second |-> -1], \* 'curren;'
  [name |-> <<99,117,114,114,101,110>>, first |-> 164, second |-> -1], \* 'curren'
  [name |-> <<99,117,114,118,101,97,114,114,111,119,108,101,102,116,59>>, first |-> 8630, second |-> -1], \* 'curvearrowleft;'
  [name |-> <<99,117,114,118,101,97,114,114,111,119,114,105,103,104,116,59>>, first |-> 8631, second |-> -1], \* 'curvearrowright;'
  [name |-> <<99,117,118,101,101,59>>, first |-> 8910, second |-> -1], \* 'cuvee;'
  [name |-> <<99,117,119,101,100,59>>, first |-> 8911, second |-> -1], \* 'cuwed;'
  [name |-> <<99,119,99,111,110,105,110,116,59>>, first |-> 8754, second |-> -1], \* 'cwconint;'
  [name |-> <<99,119,105,110,116,59>>, first |-> 8753, second |-> -1], \* 'cwint;'
  [name |-> <<99,121,108,99,116,121,59>>, first |-> 9005, second |-> -1], \* 'cylcty;'
  [name |-> <<100,65,114,114,59>>, first |-> 8659, second |-> -1], \* 'dArr;'
  [name |-> <<100,72,97,114,59>>, first |-> 10597, second |-> -1], \* 'dHar;'
  [name |-> <<100,97,103,103,101,114,59>>, first |-> 8224, second |-> -1], \* 'dagger;'
  [name |-> <<100,97,108,101,116,104,59>>, first |-> 8504, second |-> -1], \* 'daleth;'
  [name |-> <<100,97,114,114,59>>, first |-> 8595, second |-> -1], \* 'darr;'
  [name |-> <<100,97,115,104,59>>, first |-> 8208, second |-> -1], \* 'dash;'
  [name |-> <<100,97,115,104,118,59>>, first |-> 8867, second |-> -1], \* 'dashv;'
  [name |-> <<100,98,107,97,114,111,119,59>>, first |-> 10511, second |-> -1], \* 'dbkarow;'
  [name |-> <<100,98,108,97,99,59>>, first |-> 733, second |-> -1], \* 'dblac;'
  [name |-> <<100,99,97,114,111,110,59>>, first |-> 271, second |-> -1], \* 'dcaron;'
  [name |-> <<100,99,121,59>>, first |-> 1076, second |-> -1], \* 'dcy;'
  [name |-> <<100,100,59>>, first |-> 8518, second |-> -1], \* 'dd;'
  [name |-> <<100,100,97,103,103,101,114,59>>, first |-> 8225, second |-> -1], \* 'ddagger;'
  [name |-> <<100,100,97,114,114,59>>, first |-> 8650, second |-> -1], \* 'ddarr;'
  [name |-> <<100,100,111,116,115,101,113,59>>, first |-> 10871, second |-> -1], \* 'ddotseq;'
  [name |-> <<100,101,103,59>>, first |-> 176, second |-> -1], \* 'deg;'
  [name |-> <<100,101,103>>, first |-> 176, second |-> -1], \* 'deg'
  [name |-> <<100,101,108,116,97,59>>, first |-> 948, second |-> -1], \* 'delta;'
  [name |-> <<100,101,109,112,116,121,118,59>>, first |-> 10673, second |-> -1], \* 'demptyv;'
  [name |-> <<100,102,105,115,104,116,59>>, first |-> 10623, second |-> -1], \* 'dfisht;'
  [name |-> <<100,102,114,59>>, first |-> 120097, second |-> -1], \* 'dfr;'
  [name |-> <<100,104,97,114,108,59>>, first |-> 8643, second |-> -1], \* 'dharl;'
  [name |-> <<100,104,97,114,114,59>>, first |-> 8642, second |-> -1], \* 'dharr;'
  [name |-> <<100,105,97,109,59>>, first |-> 8900, second |-> -1], \* 'diam;'
  [name |-> <<100,105,97,109,111,110,100,59>>, first |-> 8900, second |-> -1], \* 'diamond;'
  [name |-> <<100,105,97,109,111,110,100,115,117,105,116,59>>, first |-> 9830, second |-> -1], \* 'diamondsuit;'
  [name |-> <<100,105,97,109,115,59>>, first |-> 9830, second |-> -1], \* 'diams;'
  [name |-> <<100,105,101,59>>, first |-> 168, second |-> -1], \* 'die;'
  [name |-> <<100,105,103,97,109,109,97,59>>, first |-> 989, second |-> -1], \* 'digamma;'
  [name |-> <<100,105,115,105,110,59>>, first |-> 8946, second |-> -1], \* 'disin;'
  [name |-> <<100,105,118,59>>, first |-> 247, second |-> -1], \* 'div;'
  [name |-> <<100,105,118,105,100,101,59>>, first |-> 247, second |-> -1], \* 'divide;'
  [name |-> <<100,105,118,105,100,101>>, first |-> 247, second |-> -1], \* 'divide'
  [name |-> <<100,105,118,105,100,101,111,110,116,105,109,101,115,59>>, first |-> 8903, second |-> -1], \* 'divideontimes;'
  [name |-> <<100,105,118,111,110,120,59>>, first |-> 8903, second |-> -1], \* 'divonx;'
  [name |-> <<100,106,99,121,59>>, first |-> 1106, second |-> -1], \* 'djcy;'
  [name |-> <<100,108,99,111,114,110,59>>, first |-> 8990, second |-> -1], \* 'dlcorn;'
  [name |-> <<100,108,99,114,111,112,59>>, first |-> 8973, second |-> -1], \* 'dlcrop;'
  [name |-> <<100,111,108,108,97,114,59>>, first |-> 36, second |-> -1], \* 'dollar;'
  [name |-> <<100,111,112,102,59>>, first |-> 120149, second |-> -1], \* 'dopf;'
  [name |-> <<100,111,116,59>>, first |-> 729, second |-> -1], \* 'dot;'
  [name |-> <<100,111,116,101,113,59>>, first |-> 8784, second |-> -1], \* 'doteq;'
  [name |-> <<100,111,116,101,113,100,111,116,59>>, first |-> 8785, second |-> -1], \* 'doteqdot;'
  [name |-> <<100,111,116,109,105,110,117,115,59>>, first |-> 8760, second |-> -1], \* 'dotminus;'
  [name |-> <<100,111,116,112,108,117,115,59>>, first |-> 8724, second |-> -1], \* 'dotplus;'
  [name |-> <<100,111,116,115,113,117,97,114,101,59>>, first |-> 8865, second |-> -1], \* 'dotsquare;'
  [name |-> <<100,111,117,98,108,101,98,97,114,119,101,100,103,101,59>>, first |-> 8966, second |-> -1], \* 'doublebarwedge;'
  [name |-> <<100,111,119,110,97,114,114,111,119,59>>, first |-> 8595, second |-> -1], \* 'downarrow;'
  [name |-> <<100,111,119,110,100,111,119,110,97,114,114,111,119,115,59>>, first |-> 8650, second |-> -1], \* 'downdownarrows;'
  [name |-> <<100,111,119,110,104,97,114,112,111,111,110,108,101,102,116,59>>, first |-> 8643, second |-> -1], \* 'downharpoonleft;'
  [name |-> <<100,111,119,110,104,97,114,112,111,111,110,114,105,103,104,116,59>>, first |-> 8642, second |-> -1], \* 'downharpoonright;'
  [name |-> <<100,114,98,107,97,114,111,119,59>>, first |-> 10512, second |-> -1], \* 'drbkarow;'
  [name |-> <<100,114,99,111,114,110,59>>, first |-> 8991, second |-> -1], \* 'drcorn;'
  [name |-> <<100,114,99,114,111,112,59>>, first |-> 8972, second |-> -1], \* 'drcrop;'
  [name |-> <<100,115,99,114,59>>, first |-> 119993, second |-> -1], \* 'dscr;'
  [name |-> <<100,115,99,121,59>>, first |-> 1109, second |-> -1], \* 'dscy;'
  [name |-> <<100,115,111,108,59>>, first |-> 10742, second |-> -1], \* 'dsol;'
  [name |-> <<100,115,116,114,111,107,59>>, first |-> 273, second |-> -1], \* 'dstrok;'
  [name |-> <<100,116,100,111,116,59>>, first |-> 8945, second |-> -1], \* 'dtdot;'
  [name |-> <<100,116,114,105,59>>, first |-> 9663, second |-> -1], \* 'dtri;'
  [name |-> <<100,116,114,105,102,59>>, first |-> 9662, second |-> -1], \* 'dtrif;'
  [name |-> <<100,117,97,114,114,59>>, first |-> 8693, second |-> -1], \* 'duarr;'
  [name |-> <<100,117,104,97,114,59>>, first |-> 10607, second |-> -1], \* 'duhar;'
  [name |-> <<100,119,97,110,103,108,101,59>>, first |-> 10662, second |-> -1], \* 'dwangle;'
  [name |-> <<100,122,99,121,59>>, first |-> 1119, second |-> -1], \* 'dzcy;'
  [name |-> <<100,122,105,103,114,97,114,114,59>>, first |-> 10239, second |-> -1], \* 'dzigrarr;'
  [name |-> <<101,68,68,111,116,59>>, first |-> 10871, second |-> -1], \* 'eDDot;'
  [name |-> <<101,68,111,116,59>>, first |-> 8785, second |-> -1], \* 'eDot;'
  [name |-> <<101,97,99,117,116,101,59>>, first |-> 233, second |-> -1], \* 'eacute;'
  [name |-> <<101,97,99,117,116,101>>, first |-> 233, second |-> -1], \* 'eacute'
  [name |-> <<101,97,115,116,101,114,59>>, first |-> 10862, second |-> -1], \* 'easter;'
  [name |-> <<101,99,97,114,111,110,59>>, first |-> 283, second |-> -1], \* 'ecaron;'
  [name |-> <<101,99,105,114,59>>, first |-> 8790, second |-> -1], \* 'ecir;'
  [name |-> <<101,99,105,114,99,59>>, first |-> 234, second |-> -1], \* 'ecirc;'
  [name |-> <<101,99,105,114,99>>, first |-> 234, second |-> -1], \* 'ecirc'
  [name |-> <<101,99,111,108,111,110,59>>, first |-> 8789, second |-> -1], \* 'ecolon;'
  [name |-> <<101,99,121,59>>, first |-> 1101, second |-> -1], \* 'ecy;'
  [name |-> <<101,100,111,116,59>>, first |-> 279, second |-> -1], \* 'edot;'
  [name |-> <<101,101,59>>, first |-> 8519, second |-> -1], \* 'ee;'
  [name |-> <<101,102,68,111,116,59>>, first |-> 8786, second |-> -1], \* 'efDot;'
  [name |-> <<101,102,114,59>>, first |-> 120098, second |-> -1], \* 'efr;'
  [name |-> <<101,103,59>>, first |-> 10906, second |-> -1], \* 'eg;'
  [name |-> <<101,103,114,97,118,101,59>>, first |-> 232, second |-> -1], \* 'egrave;'
  [name |-> <<101,103,114,97,118,101>>, first |-> 232, second |-> -1], \* 'egrave'
  [name |-> <<101,103,115,59>>, first |-> 10902, second |-> -1], \* 'egs;'
  [name |-> <<101,103,115,100,111,116,59>>, first |-> 10904, second |-> -1], \* 'egsdot;'
  [name |-> <<101,108,59>>, first |-> 10905, second |-> -1], \* 'el;'
  [name |-> <<101,108,105,110,116,101,114,115,59>>, first |-> 9191, second |-> -1], \* 'elinters;'
  [name |-> <<101,108,108,59>>, first |-> 8467, second |-> -1], \* 'ell;'
  [name |-> <<101,108,115,59>>, first |-> 10901, second |-> -1], \* 'els;'
  [name |-> <<101,108,115,100,111,116,59>>, first |-> 10903, second |-> -1], \* 'elsdot;'
  [name |-> <<101,109,97,99,114,59>>, first |-> 275, second |-> -1], \* 'emacr;'
  [name |-> <<101,109,112,116,121,59>>, first |-> 8709, second |-> -1], \* 'empty;'
  [name |-> <<101,109,112,116,121,115,101,116,59>>, first |-> 8709, second |-> -1], \* 'emptyset;'
  [name |-> <<101,109,112,116,121,118,59>>, first |-> 8709, second |-> -1], \* 'emptyv;'
  [name |-> <<101,109,115,112,49,51,59>>, first |-> 8196, second |-> -1], \* 'emsp13;'
  [name |-> <<101,109,115,112,49,52,59>>, first |-> 8197, second |-> -1], \* 'emsp14;'
  [name |-> <<101,109,115,112,59>>, first |-> 8195, second |-> -1], \* 'emsp;'
  [name |-> <<101,110,103,59>>, first |-> 331, second |-> -1], \* 'eng;'
  [name |-> <<101,110,115,112,59>>, first |-> 8194, second |-> -1], \* 'ensp;'
  [name |-> <<101,111,103,111,110,59>>, first |-> 281, second |-> -1], \* 'eogon;'
  [name |-> <<101,111,112,102,59>>, first |-> 120150, second |-> -1], \* 'eopf;'
  [name |-> <<101,112,97,114,59>>, first |-> 8917, second |-> -1], \* 'epar;'
  [name |-> <<101,112,97,114,115,108,59>>, first |-> 10723, second |-> -1], \* 'eparsl;'
  [name |-> <<101,112,108,117,115,59>>, first |-> 10865, second |-> -1], \* 'eplus;'
  [name |-> <<101,112,115,105,59>>, first |-> 949, second |-> -1], \* 'epsi;'
  [name |-> <<101,112,115,105,108,111,110,59>>, first |-> 949, second |-> -1], \* 'epsilon;'
  [name |-> <<101,112,115,105,118,59>>, first |-> 1013, second |-> -1], \* 'epsiv;'
  [name |-> <<101,113,99,105,114,99,59>>, first |-> 8790, second |-> -1], \* 'eqcirc;'
  [name |-> <<101,113,99,111,108,111,110,59>>, first |-> 8789, second |-> -1], \* 'eqcolon;'
  [name |-> <<101,113,115,105,109,59>>, first |-> 8770, second |-> -1], \* 'eqsim;'
  [name |-> <<101,113,115,108,97,110,116,103,116,114,59>>, first |-> 10902, second |-> -1], \* 'eqslantgtr;'
  [name |-> <<101,113,115,108,97,110,116,108,101,115,115,59>>, first |-> 10901, second |-> -1], \* 'eqslantless;'
  [name |-> <<101,113,117,97,108,115,59>>, first |-> 61, second |-> -1], \* 'equals;'
  [name |-> <<101,113,117,101,115,116,59>>, first |-> 8799, second |-> -1], \* 'equest;'
  [name |-> <<101,113,117,105,118,59>>, first |-> 8801, second |-> -1], \* 'equiv;'
  [name |-> <<101,113,117,105,118,68,68,59>>, first |-> 10872, second |-> -1], \* 'equivDD;'
  [name |-> <<101,113,118,112,97,114,115,108,59>>, first |-> 10725, second |-> -1], \* 'eqvparsl;'
  [name |-> <<101,114,68,111,116,59>>, first |-> 8787, second |-> -1], \* 'erDot;'
  [name |-> <<101,114,97,114,114,59>>, first |-> 10609, second |-> -1], \* 'erarr;'
  [name |-> <<101,115,99,114,59>>, first |-> 8495, second |-> -1], \* 'escr;'
  [name |-> <<101,115,100,111,116,59>>, first |-> 8784, second |-> -1], \* 'esdot;'
  [name |-> <<101,115,105,109,59>>, first |-> 8770, second |-> -1], \* 'esim;'
  [name |-> <<101,116,97,59>>, first |-> 951, second |-> -1], \* 'eta;'
  [name |-> <<101,116,104,59>>, first |-> 240, second |-> -1], \* 'eth;'
  [name |-> <<101,116,104>>, first |-> 240, second |-> -1], \* 'eth'
  [name |-> <<101,117,109,108,59>>, first |-> 235, second |-> -1], \* 'euml;'
  [name |-> <<101,117,109,108>>, first |-> 235, second |-> -1], \* 'euml'
  [name |-> <<101,117,114,111,59>>, first |-> 8364, second |-> -1], \* 'euro;'
  [name |-> <<101,120,99,108,59>>, first |-> 33, second |-> -1], \* 'excl;'
  [name |-> <<101,120,105,115,116,59>>, first |-> 8707, second |-> -1], \* 'exist;'
  [name |-> <<101,120,112,101,99,116,97,116,105,111,110,59>>, first |-> 8496, second |-> -1], \* 'expectation;'
  [name |-> <<101,120,112,111,110,101,110,116,105,97,108,101,59>>, first |-> 8519, second |-> -1], \* 'exponentiale;'
  [name |-> <<102,97,108,108,105,110,103,100,111,116,115,101,113,59>>, first |-> 8786, second |-> -1], \* 'fallingdotseq;'
  [name |-> <<102,99,121,59>>, first |-> 1092, second |-> -1], \* 'fcy;'
  [name |-> <<102,101,109,97,108,101,59>>, first |-> 9792, second |-> -1], \* 'female;'
  [name |-> <<102,102,105,108,105,103,59>>, first |-> 64259, second |-> -1], \* 'ffilig;'
  [name |-> <<102,102,108,105,103,59>>, first |-> 64256, second |-> -1], \* 'fflig;'
  [name |-> <<102,102,108,108,105,103,59>>, first |-> 64260, second |-> -1], \* 'ffllig;'
  [name |-> <<102,102,114,59>>, first |-> 120099, second |-> -1], \* 'ffr;'
  [name |-> <<102,105,108,105,103,59>>, first |-> 64257, second |-> -1], \* 'filig;'
  [name |-> <<102,106,108,105,103,59>>, first |-> 102, second |-> 106], \* 'fjlig;'
  [name |-> <<102,108,97,116,59>>, first |-> 9837, second |-> -1], \* 'flat;'
  [name |-> <<102,108,108,105,103,59>>, first |-> 64258, second |-> -1], \* 'fllig;'
  [name |-> <<102,108,116,110,115,59>>, first |-> 9649, second |-> -1], \* 'fltns;'
  [name |-> <<102,110,111,102,59>>, first |-> 402, second |-> -1], \* 'fnof;'
  [name |-> <<102,111,112,102,59>>, first |-> 120151, second |-> -1], \* 'fopf;'
  [name |-> <<102,111,114,97,108,108,59>>, first |-> 8704, second |-> -1], \* 'forall;'
  [name |-> <<102,111,114,107,59>>, first |-> 8916, second |-> -1], \* 'fork;'
  [name |-> <<102,111,114,107,118,59>>, first |-> 10969, second |-> -1], \* 'forkv;'
  [name |-> <<102,112,97,114,116,105,110,116,59>>, first |-> 10765, second |-> -1], \* 'fpartint;'
  [name |-> <<102,114,97,99,49,50,59>>, first |-> 189, second |-> -1], \* 'frac12;'
  [name |-> <<102,114,97,99,49,50>>, first |-> 189, second |-> -1], \* 'frac12'
  [name |-> <<102,114,97,99,49,51,59>>, first |-> 8531, second |-> -1], \* 'frac13;'
  [name |-> <<102,114,97,99,49,52,59>>, first |-> 188, second |-> -1], \* 'frac14;'
  [name |-> <<102,114,97,99,49,52>>, first |-> 188, second |-> -1], \* 'frac14'
  [name |-> <<102,114,97,99,49,53,59>>, first |-> 8533, second |-> -1], \* 'frac15;'
  [name |-> <<102,114,97,99,49,54,59>>, first |-> 8537, second |-> -1], \* 'frac16;'
  [name |-> <<102,114,97,99,49,56,59>>, first |-> 8539, second |-> -1], \* 'frac18;'
  [name |-> <<102,114,97,99,50,51,59>>, first |-> 8532, second |-> -1], \* 'frac23;'
  [name |-> <<102,114,97,99,50,53,59>>, first |-> 8534, second |-> -1], \* 'frac25;'
  [name |-> <<102,114,97,99,51,52,59>>, first |-> 190, second |-> -1], \* 'frac34;'
  [name |-> <<102,114,97,99,51,52>>, first |-> 190, second |-> -1], \* 'frac34'
  [name |-> <<102,114,97,99,51,53,59>>, first |-> 8535, second |-> -1], \* 'frac35;'
  [name |-> <<102,114,97,99,51,56,59>>, first |-> 8540, second |-> -1], \* 'frac38;'
  [name |-> <<102,114,97,99,52,53,59>>, first |-> 8536, second |-> -1], \* 'frac45;'
  [name |-> <<102,114,97,99,53,54,59>>, first |-> 8538, second |-> -1], \* 'frac56;'
  [name |-> <<102,114,97,99,53,56,59>>, first |-> 8541, second |-> -1], \* 'frac58;'
  [name |-> <<102,114,97,99,55,56,59>>, first |-> 8542, second |-> -1], \* 'frac78;'
  [name |-> <<102,114,97,115,108,59>>, first |-> 8260, second |-> -1], \* 'frasl;'
  [name |-> <<102,114,111,119,110,59>>, first |-> 8994, second |-> -1], \* 'frown;'
  [name |-> <<102,115,99,114,59>>, first |-> 119995, second |-> -1], \* 'fscr;'
  [name |-> <<103,69,59>>, first |-> 8807, second |-> -1], \* 'gE;'
  [name |-> <<103,69,108,59>>, first |-> 10892, second |-> -1], \* 'gEl;'
  [name |-> <<103,97,99,117,116,101,59>>, first |-> 501, second |-> -1], \* 'gacute;'
  [name |-> <<103,97,109,109,97,59>>, first |-> 947, second |-> -1], \* 'gamma;'
  [name |-> <<103,97,109,109,97,100,59>>, first |-> 989, second |-> -1], \* 'gammad;'
  [name |-> <<103,97,112,59>>, first |-> 10886, second |-> -1], \* 'gap;'
  [name |-> <<103,98,114,101,118,101,59>>, first |-> 287, second |-> -1], \* 'gbreve;'
  [name |-> <<103,99,105,114,99,59>>, first |-> 285, second |-> -1], \* 'gcirc;'
  [name |-> <<103,99,121,59>>, first |-> 1075, second |-> -1], \* 'gcy;'
  [name |-> <<103,100,111,116,59>>, first |-> 289, second |-> -1], \* 'gdot;'
  [name |-> <<103,101,59>>, first |-> 8805, second |-> -1], \* 'ge;'
  [name |-> <<103,101,108,59>>, first |-> 8923, second |-> -1], \* 'gel;'
  [name |-> <<103,101,113,59>>, first |-> 8805, second |-> -1], \* 'geq;'
  [name |-> <<103,101,113,113,59>>, first |-> 8807, second |-> -1], \* 'geqq;'
  [name |-> <<103,101,113,115,108,97,110,116,59>>, first |-> 10878, second |-> -1], \* 'geqslant;'
  [name |-> <<103,101,115,59>>, first |-> 10878, second |-> -1], \* 'ges;'
  [name |-> <<103,101,115,99,99,59>>, first |-> 10921, second |-> -1], \* 'gescc;'
  [name |-> <<103,101,115,100,111,116,59>>, first |-> 10880, second |-> -1], \* 'gesdot;'
  [name |-> <<103,101,115,100,111,116,111,59>>, first |-> 10882, second |-> -1], \* 'gesdoto;'
  [name |-> <<103,101,115,100,111,116,111,108,59>>, first |-> 10884, second |-> -1], \* 'gesdotol;'
  [name |-> <<103,101,115,108,59>>, first |-> 8923, second |-> 65024], \* 'gesl;'
  [name |-> <<103,101,115,108,101,115,59>>, first |-> 10900, second |-> -1], \* 'gesles;'
  [name |-> <<103,102,114,59>>, first |-> 120100, second |-> -1], \* 'gfr;'
  [name |-> <<103,103,59>>, first |-> 8811, second |-> -1], \* 'gg;'
  [name |-> <<103,103,103,59>>, first |-> 8921, second |-> -1], \* 'ggg;'
  [name |-> <<103,105,109,101,108,59>>, first |-> 8503, second |-> -1], \* 'gimel;'
  [name |-> <<103,106,99,121,59>>, first |-> 1107, second |-> -1], \* 'gjcy;'
  [name |-> <<103,108,59>>, first |-> 8823, second |-> -1], \* 'gl;'
  [name |-> <<103,108,69,59>>, first |-> 10898, second |-> -1], \* 'glE;'
  [name |-> <<103,108,97,59>>, first |-> 10917, second |-> -1], \* 'gla;'
  [name |-> <<103,108,106,59>>, first |-> 10916, second |-> -1], \* 'glj;'
  [name |-> <<103,110,69,59>>, first |-> 8809, second |-> -1], \* 'gnE;'
  [name |-> <<103,110,97,112,59>>, first |-> 10890, second |-> -1], \* 'gnap;'
  [name |-> <<103,110,97,112,112,114,111,120,59>>, first |-> 10890, second |-> -1], \* 'gnapprox;'
  [name |-> <<103,110,101,59>>, first |-> 10888, second |-> -1], \* 'gne;'
  [name |-> <<103,110,101,113,59>>, first |-> 10888, second |-> -1], \* 'gneq;'
  [name |-> <<103,110,101,113,113,59>>, first |-> 8809, second |-> -1], \* 'gneqq;'
  [name |-> <<103,110,115,105,109,59>>, first |-> 8935, second |-> -1], \* 'gnsim;'
  [name |-> <<103,111,112,102,59>>, first |-> 120152, second |-> -1], \* 'gopf;'
  [name |-> <<103,114,97,118,101,59>>, first |-> 96, second |-> -1], \* 'grave;'
  [name |-> <<103,115,99,114,59>>, first |-> 8458, second |-> -1], \* 'gscr;'
  [name |-> <<103,115,105,109,59>>, first |-> 8819, second |-> -1], \* 'gsim;'
  [name |-> <<103,115,105,109,101,59>>, first |-> 10894, second |-> -1], \* 'gsime;'
  [name |-> <<103,115,105,109,108,59>>, first |-> 10896, second |-> -1], \* 'gsiml;'
  [name |-> <<103,116,59>>, first |-> 62, second |-> -1], \* 'gt;'
  [name |-> <<103,116>>, first |-> 62, second |-> -1], \* 'gt'
  [name |-> <<103,116,99,99,59>>, first |-> 10919, second |-> -1], \* 'gtcc;'
  [name |-> <<103,116,99,105,114,59>>, first |-> 10874, second |-> -1], \* 'gtcir;'
  [name |-> <<103,116,100,111,116,59>>, first |-> 8919, second |-> -1], \* 'gtdot;'
  [name |-> <<103,116,108,80,97,114,59>>, first |-> 10645, second |-> -1], \* 'gtlPar;'
  [name |-> <<103,116,113,117,101,115,116,59>>, first |-> 10876, second |-> -1], \* 'gtquest;'
  [name |-> <<103,116,114,97,112,112,114,111,120,59>>, first |-> 10886, second |-> -1], \* 'gtrapprox;'
  [name |-> <<103,116,114,97,114,114,59>>, first |-> 10616, second |-> -1], \* 'gtrarr;'
  [name |-> <<103,116,114,100,111,116,59>>, first |-> 8919, second |-> -1], \* 'gtrdot;'
  [name |-> <<103,116,114,101,113,108,101,115,115,59>>, first |-> 8923, second |-> -1], \* 'gtreqless;'
  [name |-> <<103,116,114,101,113,113,108,101,115,115,59>>, first |-> 10892, second |-> -1], \* 'gtreqqless;'
  [name |-> <<103,116,114,108,101,115,115,59>>, first |-> 8823, second |-> -1], \* 'gtrless;'
  [name |-> <<103,116,114,115,105,109,59>>, first |-> 8819, second |-> -1], \* 'gtrsim;'
  [name |-> <<103,118,101,114,116,110,101,113,113,59>>, first |-> 8809, second |-> 65024], \* 'gvertneqq;'
  [name |-> <<103,118,110,69,59>>, first |-> 8809, second |-> 65024], \* 'gvnE;'
  [name |-> <<104,65,114,114,59>>, first |-> 8660, second |-> -1], \* 'hArr;'
  [name |-> <<104,97,105,114,115,112,59>>, first |-> 8202, second |-> -1], \* 'hairsp;'
  [name |-> <<104,97,108,102,59>>, first |-> 189, second |-> -1], \* 'half;'
  [name |-> <<104,97,109,105,108,116,59>>, first |-> 8459, second |-> -1], \* 'hamilt;'
  [name |-> <<104,97,114,100,99,121,59>>, first |-> 1098, second |-> -1], \* 'hardcy;'
  [name |-> <<104,97,114,114,59>>, first |-> 8596, second |-> -1], \* 'harr;'
  [name |-> <<104,97,114,114,99,105,114,59>>, first |-> 10568, second |-> -1], \* 'harrcir;'
  [name |-> <<104,97,114,114,119,59>>, first |-> 8621, second |-> -1], \* 'harrw;'
  [name |-> <<104,98,97,114,59>>, first |-> 8463, second |-> -1], \* 'hbar;'
  [name |-> <<104,99,105,114,99,59>>, first |-> 293, second |-> -1], \* 'hcirc;'
  [name |-> <<104,101,97,114,116,115,59>>, first |-> 9829, second |-> -1], \* 'hearts;'
  [name |-> <<104,101,97,114,116,115,117,105,116,59>>, first |-> 9829, second |-> -1], \* 'heartsuit;'
  [name |-> <<104,101,108,108,105,112,59>>, first |-> 8230, second |-> -1], \* 'hellip;'
  [name |-> <<104,101,114,99,111,110,59>>, first |-> 8889, second |-> -1], \* 'hercon;'
  [name |-> <<104,102,114,59>>, first |-> 120101, second |-> -1], \* 'hfr;'
  [name |-> <<104,107,115,101,97,114,111,119,59>>, first |-> 10533, second |-> -1], \* 'hksearow;'
  [name |-> <<104,107,115,119,97,114,111,119,59>>, first |-> 10534, second |-> -1], \* 'hkswarow;'
  [name |-> <<104,111,97,114,114,59>>, first |-> 8703, second |-> -1], \* 'hoarr;'
  [name |-> <<104,111,109,116,104,116,59>>, first |-> 8763, second |-> -1], \* 'homtht;'
  [name |-> <<104,111,111,107,108,101,102,116,97,114,114,111,119,59>>, first |-> 8617, second |-> -1], \* 'hookleftarrow;'
  [name |-> <<104,111,111,107,114,105,103,104,116,97,114,114,111,119,59>>, first |-> 8618, second |-> -1], \* 'hookrightarrow;'
  [name |-> <<104,111,112,102,59>>, first |-> 120153, second |-> -1], \* 'hopf;'
  [name |-> <<104,111,114,98,97,114,59>>, first |-> 8213, second |-> -1], \* 'horbar;'
  [name |-> <<104,115,99,114,59>>, first |-> 119997, second |-> -1], \* 'hscr;'
  [name |-> <<104,115,108,97,115,104,59>>, first |-> 8463, second |-> -1], \* 'hslash;'
  [name |-> <<104,115,116,114,111,107,59>>, first |-> 295, second |-> -1], \* 'hstrok;'
  [name |-> <<104,121,98,117,108,108,59>>, first |-> 8259, second |-> -1], \* 'hybull;'
  [name |-> <<104,121,112,104,101,110,59>>, first |-> 8208, second |-> -1], \* 'hyphen;'
  [name |-> <<105,97,99,117,116,101,59>>, first |-> 237, second |-> -1], \* 'iacute;'
  [name |-> <<105,97,99,117,116,101>>, first |-> 237, second |-> -1], \* 'iacute'
  [name |-> <<105,99,59>>, first |-> 8291, second |-> -1], \* 'ic;'
  [name |-> <<105,99,105,114,99,59>>, first |-> 238, second |-> -1], \* 'icirc;'
  [name |-> <<105,99,105,114,99>>, first |-> 238, second |-> -1], \* 'icirc'
  [name |-> <<105,99,121,59>>, first |-> 1080, second |-> -1], \* 'icy;'
  [name |-> <<105,101,99,121,59>>, first |-> 1077, second |-> -1], \* 'iecy;'
  [name |-> <<105,101,120,99,108,59>>, first |-> 161, second |-> -1], \* 'iexcl;'
  [name |-> <<105,101,120,99,108>>, first |-> 161, second |-> -1], \* 'iexcl'
  [name |-> <<105,102,102,59>>, first |-> 8660, second |-> -1], \* 'iff;'
  [name |-> <<105,102,114,59>>, first |-> 120102, second |-> -1], \* 'ifr;'
  [name |-> <<105,103,114,97,118,101,59>>, first |-> 236, second |-> -1], \* 'igrave;'
  [name |-> <<105,103,114,97,118,101>>, first |-> 236, second |-> -1], \* 'igrave'
  [name |-> <<105,105,59>>, first |-> 8520, second |-> -1], \* 'ii;'
  [name |-> <<105,105,105,105,110,116,59>>, first |-> 10764, second |-> -1], \* 'iiiint;'
  [name |-> <<105,105,105,110,116,59>>, first |-> 8749, second |-> -1], \* 'iiint;'
  [name |-> <<105,105,110,102,105,110,59>>, first |-> 10716, second |-> -1], \* 'iinfin;'
  [name |-> <<105,105,111,116,97,59>>, first |-> 8489, second |-> -1], \* 'iiota;'
  [name |-> <<105,106,108,105,103,59>>, first |-> 307, second |-> -1], \* 'ijlig;'
  [name |-> <<105,109,97,99,114,59>>, first |-> 299, second |-> -1], \* 'imacr;'
  [name |-> <<105,109,97,103,101,59>>, first |-> 8465, second |-> -1], \* 'image;'
  [name |-> <<105,109,97,103,108,105,110,101,59>>, first |-> 8464, second |-> -1], \* 'imagline;'
  [name |-> <<105,109,97,103,112,97,114,116,59>>, first |-> 8465, second |-> -1], \* 'imagpart;'
  [name |-> <<105,109,97,116,104,59>>, first |-> 305, second |-> -1], \* 'imath;'
  [name |-> <<105,109,111,102,59>>, first |-> 8887, second |-> -1], \* 'imof;'
  [name |-> <<105,109,112,101,100,59>>, first |-> 437, second |-> -1], \* 'imped;'
  [name |-> <<105,110,59>>, first |-> 8712, second |-> -1], \* 'in;'
  [name |-> <<105,110,99,97,114,101,59>>, first |-> 8453, second |-> -1], \* 'incare;'
  [name |-> <<105,110,102,105,110,59>>, first |-> 8734, second |-> -1], \* 'infin;'
  [name |-> <<105,110,102,105,110,116,105,101,59>>, first |-> 10717, second |-> -1], \* 'infintie;'
  [name |-> <<105,110,111,100,111,116,59>>, first |-> 305, second |-> -1], \* 'inodot;'
  [name |-> <<105,110,116,59>>, first |-> 8747, second |-> -1], \* 'int;'
  [name |-> <<105,110,116,99,97,108,59>>, first |-> 8890, second |-> -1], \* 'intcal;'
  [name |-> <<105,110,116,101,103,101,114,115,59>>, first |-> 8484, second |-> -1], \* 'integers;'
  [name |-> <<105,110,116,101,114,99,97,108,59>>, first |-> 8890, second |-> -1], \* 'intercal;'
  [name |-> <<105,110,116,108,97,114,104,107,59>>, first |-> 10775, second |-> -1], \* 'intlarhk;'
  [name |-> <<105,110,116,112,114,111,100,59>>, first |-> 10812, second |-> -1], \* 'intprod;'
  [name |-> <<105,111,99,121,59>>, first |-> 1105, second |-> -1], \* 'iocy;'
  [name |-> <<105,111,103,111,110,59>>, first |-> 303, second |-> -1], \* 'iogon;'
  [name |-> <<105,111,112,102,59>>, first |-> 120154, second |-> -1], \* 'iopf;'
  [name |-> <<105,111,116,97,59>>, first |-> 953, second |-> -1], \* 'iota;'
  [name |-> <<105,112,114,111,100,59>>, first |-> 10812, second |-> -1], \* 'iprod;'
  [name |-> <<105,113,117,101,115,116,59>>, first |-> 191, second |-> -1], \* 'iquest;'
  [name |-> <<105,113,117,101,115,116>>, first |-> 191, second |-> -1], \* 'iquest'
  [name |-> <<105,115,99,114,59>>, first |-> 119998, second |-> -1], \* 'iscr;'
  [name |-> <<105,115,105,110,59>>, first |-> 8712, second |-> -1], \* 'isin;'
  [name |-> <<105,115,105,110,69,59>>, first |-> 8953, second |-> -1], \* 'isinE;'
  [name |-> <<105,115,105,110,100,111,116,59>>, first |-> 8949, second |-> -1], \* 'isindot;'
  [name |-> <<105,115,105,110,115,59>>, first |-> 8948, second |-> -1], \* 'isins;'
  [name |-> <<105,115,105,110,115,118,59>>, first |-> 8947, second |-> -1], \* 'isinsv;'
  [name |-> <<105,115,105,110,118,59>>, first |-> 8712, second |-> -1], \* 'isinv;'
  [name |-> <<105,116,59>>, first |-> 8290, second |-> -1], \* 'it;'
  [name |-> <<105,116,105,108,100,101,59>>, first |-> 297, second |-> -1], \* 'itilde;'
  [name |-> <<105,117,107,99,121,59>>, first |-> 1110, second |-> -1], \* 'iukcy;'
  [name |-> <<105,117,109,108,59>>, first |-> 239, second |-> -1], \* 'iuml;'
  [name |-> <<105,117,109,108>>, first |-> 239, second |-> -1], \* 'iuml'
  [name |-> <<106,99,105,114,99,59>>, first |-> 309, second |-> -1], \* 'jcirc;'
  [name |-> <<106,99,121,59>>, first |-> 1081, second |-> -1], \* 'jcy;'
  [name |-> <<106,102,114,59>>, first |-> 120103, second |-> -1], \* 'jfr;'
  [name |-> <<106,109,97,116,104,59>>, first |-> 567, second |-> -1], \* 'jmath;'
  [name |-> <<106,111,112,102,59>>, first |-> 120155, second |-> -1], \* 'jopf;'
  [name |-> <<106,115,99,114,59>>, first |-> 119999, second |-> -1], \* 'jscr;'
  [name |-> <<106,115,101,114,99,121,59>>, first |-> 1112, second |-> -1], \* 'jsercy;'
  [name |-> <<106,117,107,99,121,59>>, first |-> 1108, second |-> -1], \* 'jukcy;'
  [name |-> <<107,97,112,112,97,59>>, first |-> 954, second |-> -1], \* 'kappa;'
  [name |-> <<107,97,112,112,97,118,59>>, first |-> 1008, second |-> -1], \* 'kappav;'
  [name |-> <<107,99,101,100,105,108,59>>, first |-> 311, second |-> -1], \* 'kcedil;'
  [name |-> <<107,99,121,59>>, first |-> 1082, second |-> -1], \* 'kcy;'
  [name |-> <<107,102,114,59>>, first |-> 120104, second |-> -1], \* 'kfr;'
  [name |-> <<107,103,114,101,101,110,59>>, first |-> 312, second |-> -1], \* 'kgreen;'
  [name |-> <<107,104,99,121,59>>, first |-> 1093, second |-> -1], \* 'khcy;'
  [name |-> <<107,106,99,121,59>>, first |-> 1116, second |-> -1], \* 'kjcy;'
  [name |-> <<107,111,112,102,59>>, first |-> 120156, second |-> -1], \* 'kopf;'
  [name |-> <<107,115,99,114,59>>, first |-> 120000, second |-> -1], \* 'kscr;'
  [name |-> <<108,65,97,114,114,59>>, first |-> 8666, second |-> -1], \* 'lAarr;'
  [name |-> <<108,65,114,114,59>>, first |-> 8656, second |-> -1], \* 'lArr;'
  [name |-> <<108,65,116,97,105,108,59>>, first |-> 10523, second |-> -1], \* 'lAtail;'
  [name |-> <<108,66,97,114,114,59>>, first |-> 10510, second |-> -1], \* 'lBarr;'
  [name |-> <<108,69,59>>, first |-> 8806, second |-> -1], \* 'lE;'
  [name |-> <<108,69,103,59>>, first |-> 10891, second |-> -1], \* 'lEg;'
  [name |-> <<108,72,97,114,59>>, first |-> 10594, second |-> -1], \* 'lHar;'
  [name |-> <<108,97,99,117,116,101,59>>, first |-> 314, second |-> -1], \* 'lacute;'
  [name |-> <<108,97,101,109,112,116,121,118,59>>, first |-> 10676, second |-> -1], \* 'laemptyv;'
  [name |-> <<108,97,103,114,97,110,59>>, first |-> 8466, second |-> -1], \* 'lagran;'
  [name |-> <<108,97,109,98,100,97,59>>, first |-> 955, second |-> -1], \* 'lambda;'
  [name |-> <<108,97,110,103,59>>, first |-> 10216, second |-> -1], \* 'lang;'
  [name |-> <<108,97,110,103,100,59>>, first |-> 10641, second |-> -1], \* 'langd;'
  [name |-> <<108,97,110,103,108,101,59>>, first |-> 10216, second |-> -1], \* 'langle;'
  [name |-> <<108,97,112,59>>, first |-> 10885, second |-> -1], \* 'lap;'
  [name |-> <<108,97,113,117,111,59>>, first |-> 171, second |-> -1], \* 'laquo;'
  [name |-> <<108,97,113,117,111>>, first |-> 171, second |-> -1], \* 'laquo'
  [name |-> <<108,97,114,114,59>>, first |-> 8592, second |-> -1], \* 'larr;'
  [name |-> <<108,97,114,114,98,59>>, first |-> 8676, second |-> -1], \* 'larrb;'
  [name |-> <<108,97,114,114,98,102,115,59>>, first |-> 10527, second |-> -1], \* 'larrbfs;'
  [name |-> <<108,97,114,114,102,115,59>>, first |-> 10525, second |-> -1], \* 'larrfs;'
  [name |-> <<108,97,114,114,104,107,59>>, first |-> 8617, second |-> -1], \* 'larrhk;'
  [name |-> <<108,97,114,114,108,112,59>>, first |-> 8619, second |-> -1], \* 'larrlp;'
  [name |-> <<108,97,114,114,112,108,59>>, first |-> 10553, second |-> -1], \* 'larrpl;'
  [name |-> <<108,97,114,114,115,105,109,59>>, first |-> 10611, second |-> -1], \* 'larrsim;'
  [name |-> <<108,97,114,114,116,108,59>>, first |-> 8610, second |-> -1], \* 'larrtl;'
  [name |-> <<108,97,116,59>>, first |-> 10923, second |-> -1], \* 'lat;'
  [name |-> <<108,97,116,97,105,108,59>>, first |-> 10521, second |-> -1], \* 'latail;'
  [name |-> <<108,97,116,101,59>>, first |-> 10925, second |-> -1], \* 'late;'
  [name |-> <<108,97,116,101,115,59>>, first |-> 10925, second |-> 65024], \* 'lates;'
  [name |-> <<108,98,97,114,114,59>>, first |-> 10508, second |-> -1], \* 'lbarr;'
  [name |-> <<108,98,98,114,107,59>>, first |-> 10098, second |-> -1], \* 'lbbrk;'
  [name |-> <<108,98,114,97,99,101,59>>, first |-> 123, second |-> -1], \* 'lbrace;'
  [name |-> <<108,98,114,97,99,107,59>>, first |-> 91, second |-> -1], \* 'lbrack;'
  [name |-> <<108,98,114,107,101,59>>, first |-> 10635, second |-> -1], \* 'lbrke;'
  [name |-> <<108,98,114,107,115,108,100,59>>, first |-> 10639, second |-> -1], \* 'lbrksld;'
  [name |-> <<108,98,114,107,115,108,117,59>>, first |-> 10637, second |-> -1], \* 'lbrkslu;'
  [name |-> <<108,99,97,114,111,110,59>>, first |-> 318, second |-> -1], \* 'lcaron;'
  [name |-> <<108,99,101,100,105,108,59>>, first |-> 316, second |-> -1], \* 'lcedil;'
  [name |-> <<108,99,101,105,108,59>>, first |-> 8968, second |-> -1], \* 'lceil;'
  [name |-> <<108,99,117,98,59>>, first |-> 123, second |-> -1], \* 'lcub;'
  [name |-> <<108,99,121,59>>, first |-> 1083, second |-> -1], \* 'lcy;'
  [name |-> <<108,100,99,97,59>>, first |-> 10550, second |-> -1], \* 'ldca;'
  [name |-> <<108,100,113,117,111,59>>, first |-> 8220, second |-> -1], \* 'ldquo;'
  [name |-> <<108,100,113,117,111,114,59>>, first |-> 8222, second |-> -1], \* 'ldquor;'
  [name |-> <<108,100,114,100,104,97,114,59>>, first |-> 10599, second |-> -1], \* 'ldrdhar;'
  [name |-> <<108,100,114,117,115,104,97,114,59>>, first |-> 10571, second |-> -1], \* 'ldrushar;'
  [name |-> <<108,100,115,104,59>>, first |-> 8626, second |-> -1], \* 'ldsh;'
  [name |-> <<108,101,59>>, first |-> 8804, second |-> -1], \* 'le;'
  [name |-> <<108,101,102,116,97,114,114,111,119,59>>, first |-> 8592, second |-> -1], \* 'leftarrow;'
  [name |-> <<108,101,102,116,97,114,114,111,119,116,97,105,108,59>>, first |-> 8610, second |-> -1], \* 'leftarrowtail;'
  [name |-> <<108,101,102,116,104,97,114,112,111,111,110,100,111,119,110,59>>, first |-> 8637, second |-> -1], \* 'leftharpoondown;'
  [name |-> <<108,101,102,116,104,97,114,112,111,111,110,117,112,59>>, first |-> 8636, second |-> -1], \* 'leftharpoonup;'
  [name |-> <<108,101,102,116,108,101,102,116,97,114,114,111,119,115,59>>, first |-> 8647, second |-> -1], \* 'leftleftarrows;'
  [name |-> <<108,101,102,116,114,105,103,104,116,97,114,114,111,119,59>>, first |-> 8596, second |-> -1], \* 'leftrightarrow;'
  [name |-> <<108,101,102,116,114,105,103,104,116,97,114,114,111,119,115,59>>, first |-> 8646, second |-> -1], \* 'leftrightarrows;'
  [name |-> <<108,101,102,116,114,105,103,104,116,104,97,114,112,111,111,110,115,59>>, first |-> 8651, second |-> -1], \* 'leftrightharpoons;'
  [name |-> <<108,101,102,116,114,105,103,104,116,115,113,117,105,103,97,114,114,111,119,59>>, first |-> 8621, second |-> -1], \* 'leftrightsquigarrow;'
  [name |-> <<108,101,102,116,116,104,114,101,101,116,105,109,101,115,59>>, first |-> 8907, second |-> -1], \* 'leftthreetimes;'
  [name |-> <<108,101,103,59>>, first |-> 8922, second |-> -1], \* 'leg;'
  [name |-> <<108,101,113,59>>, first |-> 8804, second |-> -1], \* 'leq;'
  [name |-> <<108,101,113,113,59>>, first |-> 8806, second |-> -1], \* 'leqq;'
  [name |-> <<108,101,113,115,108,97,110,116,59>>, first |-> 10877, second |-> -1], \* 'leqslant;'
  [name |-> <<108,101,115,59>>, first |-> 10877, second |-> -1], \* 'les;'
  [name |-> <<108,101,115,99,99,59>>, first |-> 10920, second |-> -1], \* 'lescc;'
  [name |-> <<108,101,115,100,111,116,59>>, first |-> 10879, second |-> -1], \* 'lesdot;'
  [name |-> <<108,101,115,100,111,116,111,59>>, first |-> 10881, second |-> -1], \* 'lesdoto;'
  [name |-> <<108,101,115,100,111,116,111,114,59>>, first |-> 10883, second |-> -1], \* 'lesdotor;'
  [name |-> <<108,101,115,103,59>>, first |-> 8922, second |-> 65024], \* 'lesg;'
  [name |-> <<108,101,115,103,101,115,59>>, first |-> 10899, second |-> -1], \* 'lesges;'
  [name |-> <<108,101,115,115,97,112,112,114,111,120,59>>, first |-> 10885, second |-> -1], \* 'lessapprox;'
  [name |-> <<108,101,115,115,100,111,116,59>>, first |-> 8918, second |-> -1], \* 'lessdot;'
  [name |-> <<108,101,115,115,101,113,103,116,114,59>>, first |-> 8922, second |-> -1], \* 'lesseqgtr;'
  [name |-> <<108,101,115,115,101,113,113,103,116,114,59>>, first |-> 10891, second |-> -1], \* 'lesseqqgtr;'
  [name |-> <<108,101,115,115,103,116,114,59>>, first |-> 8822, second |-> -1], \* 'lessgtr;'
  [name |-> <<108,101,115,115,115,105,109,59>>, first |-> 8818, second |-> -1], \* 'lesssim;'
  [name |-> <<108,102,105,115,104,116,59>>, first |-> 10620, second |-> -1], \* 'lfisht;'
  [name |-> <<108,102,108,111,111,114,59>>, first |-> 8970, second |-> -1], \* 'lfloor;'
  [name |-> <<108,102,114,59>>, first |-> 120105, second |-> -1], \* 'lfr;'
  [name |-> <<108,103,59>>, first |-> 8822, second |-> -1], \* 'lg;'
  [name |-> <<108,103,69,59>>, first |-> 10897, second |-> -1], \* 'lgE;'
  [name |-> <<108,104,97,114,100,59>>, first |-> 8637, second |-> -1], \* 'lhard;'
  [name |-> <<108,104,97,114,117,59>>, first |-> 8636, second |-> -1], \* 'lharu;'
  [name |-> <<108,104,97,114,117,108,59>>, first |-> 10602, second |-> -1], \* 'lharul;'
  [name |-> <<108,104,98,108,107,59>>, first |-> 9604, second |-> -1], \* 'lhblk;'
  [name |-> <<108,106,99,121,59>>, first |-> 1113, second |-> -1], \* 'ljcy;'
  [name |-> <<108,108,59>>, first |-> 8810, second |-> -1], \* 'll;'
  [name |-> <<108,108,97,114,114,59>>, first |-> 8647, second |-> -1], \* 'llarr;'
  [name |-> <<108,108,99,111,114,110,101,114,59>>, first |-> 8990, second |-> -1], \* 'llcorner;'
  [name |-> <<108,108,104,97,114,100,59>>, first |-> 10603, second |-> -1], \* 'llhard;'
  [name |-> <<108,108,116,114,105,59>>, first |-> 9722, second |-> -1], \* 'lltri;'
  [name |-> <<108,109,105,100,111,116,59>>, first |-> 320, second |-> -1], \* 'lmidot;'
  [name |-> <<108,109,111,117,115,116,59>>, first |-> 9136, second |-> -1], \* 'lmoust;'
  [name |-> <<108,109,111,117,115,116,97,99,104,101,59>>, first |-> 9136, second |-> -1], \* 'lmoustache;'
  [name |-> <<108,110,69,59>>, first |-> 8808, second |-> -1], \* 'lnE;'
  [name |-> <<108,110,97,112,59>>, first |-> 10889, second |-> -1], \* 'lnap;'
  [name |-> <<108,110,97,112,112,114,111,120,59>>, first |-> 10889, second |-> -1], \* 'lnapprox;'
  [name |-> <<108,110,101,59>>, first |-> 10887, second |-> -1], \* 'lne;'
  [name |-> <<108,110,101,113,59>>, first |-> 10887, second |-> -1], \* 'lneq;'
  [name |-> <<108,110,101,113,113,59>>, first |-> 8808, second |-> -1], \* 'lneqq;'
  [name |-> <<108,110,115,105,109,59>>, first |-> 8934, second |-> -1], \* 'lnsim;'
  [name |-> <<108,111,97,110,103,59>>, first |-> 10220, second |-> -1], \* 'loang;'
  [name |-> <<108,111,97,114,114,59>>, first |-> 8701, second |-> -1], \* 'loarr;'
  [name |-> <<108,111,98,114,107,59>>, first |-> 10214, second |-> -1], \* 'lobrk;'
  [name |-> <<108,111,110,103,108,101,102,116,97,114,114,111,119,59>>, first |-> 10229, second |-> -1], \* 'longleftarrow;'
  [name |-> <<108,111,110,103,108,101,102,116,114,105,103,104,116,97,114,114,111,119,59>>, first |-> 10231, second |-> -1], \* 'longleftrightarrow;'
  [name |-> <<108,111,110,103,109,97,112,115,116,111,59>>, first |-> 10236, second |-> -1], \* 'longmapsto;'
  [name |-> <<108,111,110,103,114,105,103,104,116,97,114,114,111,119,59>>, first |-> 10230, second |-> -1], \* 'longrightarrow;'
  [name |-> <<108,111,111,112,97,114,114,111,119,108,101,102,116,59>>, first |-> 8619, second |-> -1], \* 'looparrowleft;'
  [name |-> <<108,111,111,112,97,114,114,111,119,114,105,103,104,116,59>>, first |-> 8620, second |-> -1], \* 'looparrowright;'
  [name |-> <<108,111,112,97,114,59>>, first |-> 10629, second |-> -1], \* 'lopar;'
  [name |-> <<108,111,112,102,59>>, first |-> 120157, second |-> -1], \* 'lopf;'
  [name |-> <<108,111,112,108,117,115,59>>, first |-> 10797, second |-> -1], \* 'loplus;'
  [name |-> <<108,111,116,105,109,101,115,59>>, first |-> 10804, second |-> -1], \* 'lotimes;'
  [name |-> <<108,111,119,97,115,116,59>>, first |-> 8727, second |-> -1], \* 'lowast;'
  [name |-> <<108,111,119,98,97,114,59>>, first |-> 95, second |-> -1], \* 'lowbar;'
  [name |-> <<108,111,122,59>>, first |-> 9674, second |-> -1], \* 'loz;'
  [name |-> <<108,111,122,101,110,103,101,59>>, first |-> 9674, second |-> -1], \* 'lozenge;'
  [name |-> <<108,111,122,102,59>>, first |-> 10731, second |-> -1], \* 'lozf;'
  [name |-> <<108,112,97,114,59>>, first |-> 40, second |-> -1], \* 'lpar;'
  [name |-> <<108,112,97,114,108,116,59>>, first |-> 10643, second |-> -1], \* 'lparlt;'
  [name |-> <<108,114,97,114,114,59>>, first |-> 8646, second |-> -1], \* 'lrarr;'
  [name |-> <<108,114,99,111,114,110,101,114,59>>, first |-> 8991, second |-> -1], \* 'lrcorner;'
  [name |-> <<108,114,104,97,114,59>>, first |-> 8651, second |-> -1], \* 'lrhar;'
  [name |-> <<108,114,104,97,114,100,59>>, first |-> 10605, second |-> -1], \* 'lrhard;'
  [name |-> <<108,114,109,59>>, first |-> 8206, second |-> -1], \* 'lrm;'
  [name |-> <<108,114,116,114,105,59>>, first |-> 8895, second |-> -1], \* 'lrtri;'
  [name |-> <<108,115,97,113,117,111,59>>, first |-> 8249, second |-> -1], \* 'lsaquo;'
  [name |-> <<108,115,99,114,59>>, first |-> 120001, second |-> -1], \* 'lscr;'
  [name |-> <<108,115,104,59>>, first |-> 8624, second |-> -1], \* 'lsh;'
  [name |-> <<108,115,105,109,59>>, first |-> 8818, second |-> -1], \* 'lsim;'
  [name |-> <<108,115,105,109,101,59>>, first |-> 10893, second |-> -1], \* 'lsime;'
  [name |-> <<108,115,105,109,103,59>>, first |-> 10895, second |-> -1], \* 'lsimg;'
  [name |-> <<108,115,113,98,59>>, first |-> 91, second |-> -1], \* 'lsqb;'
  [name |-> <<108,115,113,117,111,59>>, first |-> 8216, second |-> -1], \* 'lsquo;'
  [name |-> <<108,115,113,117,111,114,59>>, first |-> 8218, second |-> -1], \* 'lsquor;'
  [name |-> <<108,115,116,114,111,107,59>>, first |-> 322, second |-> -1], \* 'lstrok;'
  [name |-> <<108,116,59>>, first |-> 60, second |-> -1], \* 'lt;'
  [name |-> <<108,116>>, first |-> 60, second |-> -1], \* 'lt'
  [name |-> <<108,116,99,99,59>>, first |-> 10918, second |-> -1], \* 'ltcc;'
  [name |-> <<108,116,99,105,114,59>>, first |-> 10873, second |-> -1], \* 'ltcir;'
  [name |-> <<108,116,100,111,116,59>>, first |-> 8918, second |-> -1], \* 'ltdot;'
  [name |-> <<108,116,104,114,101,101,59>>, first |-> 8907, second |-> -1], \* 'lthree;'
  [name |-> <<108,116,105,109,101,115,59>>, first |-> 8905, second |-> -1], \* 'ltimes;'
  [name |-> <<108,116,108,97,114,114,59>>, first |-> 10614, second |-> -1], \* 'ltlarr;'
  [name |-> <<108,116,113,117,101,115,116,59>>, first |-> 10875, second |-> -1], \* 'ltquest;'
  [name |-> <<108,116,114,80,97,114,59>>, first |-> 10646, second |-> -1], \* 'ltrPar;'
  [name |-> <<108,116,114,105,59>>, first |-> 9667, second |-> -1], \* 'ltri;'
  [name |-> <<108,116,114,105,101,59>>, first |-> 8884, second |-> -1], \* 'ltrie;'
  [name |-> <<108,116,114,105,102,59>>, first |-> 9666, second |-> -1], \* 'ltrif;'
  [name |-> <<108,117,114,100,115,104,97,114,59>>, first |-> 10570, second |-> -1], \* 'lurdshar;'
  [name |-> <<108,117,114,117,104,97,114,59>>, first |-> 10598, second |-> -1], \* 'luruhar;'
  [name |-> <<108,118,101,114,116,110,101,113,113,59>>, first |-> 8808, second |-> 65024], \* 'lvertneqq;'
  [name |-> <<108,118,110,69,59>>, first |-> 8808, second |-> 65024], \* 'lvnE;'
  [name |-> <<109,68,68,111,116,59>>, first |-> 8762, second |-> -1], \* 'mDDot;'
  [name |-> <<109,97,99,114,59>>, first |-> 175, second |-> -1], \* 'macr;'
  [name |-> <<109,97,99,114>>, first |-> 175, second |-> -1], \* 'macr'
  [name |-> <<109,97,108,101,59>>, first |-> 9794, second |-> -1], \* 'male;'
  [name |-> <<109,97,108,116,59>>, first |-> 10016, second |-> -1], \* 'malt;'
  [name |-> <<109,97,108,116,101,115,101,59>>, first |-> 10016, second |-> -1], \* 'maltese;'
  [name |-> <<109,97,112,59>>, first |-> 8614, second |-> -1], \* 'map;'
  [name |-> <<109,97,112,115,116,111,59>>, first |-> 8614, second |-> -1], \* 'mapsto;'
  [name |-> <<109,97,112,115,116,111,100,111,119,110,59>>, first |-> 8615, second |-> -1], \* 'mapstodown;'
  [name |-> <<109,97,112,115,116,111,108,101,102,116,59>>, first |-> 8612, second |-> -1], \* 'mapstoleft;'
  [name |-> <<109,97,112,115,116,111,117,112,59>>, first |-> 8613, second |-> -1], \* 'mapstoup;'
  [name |-> <<109,97,114,107,101,114,59>>, first |-> 9646, second |-> -1], \* 'marker;'
  [name |-> <<109,99,111,109,109,97,59>>, first |-> 10793, second |-> -1], \* 'mcomma;'
  [name |-> <<109,99,121,59>>, first |-> 1084, second |-> -1], \* 'mcy;'
  [name |-> <<109,100,97,115,104,59>>, first |-> 8212, second |-> -1], \* 'mdash;'
  [name |-> <<109,101,97,115,117,114,101,100,97,110,103,108,101,59>>, first |-> 8737, second |-> -1], \* 'measuredangle;'
  [name |-> <<109,102,114,59>>, first |-> 120106, second |-> -1], \* 'mfr;'
  [name |-> <<109,104,111,59>>, first |-> 8487, second |-> -1], \* 'mho;'
  [name |-> <<109,105,99,114,111,59>>, first |-> 181, second |-> -1], \* 'micro;'
  [name |-> <<109,105,99,114,111>>, first |-> 181, second |-> -1], \* 'micro'
  [name |-> <<109,105,100,59>>, first |-> 8739, second |-> -1], \* 'mid;'
  [name |-> <<109,105,100,97,115,116,59>>, first |-> 42, second |-> -1], \* 'midast;'
  [name |-> <<109,105,100,99,105,114,59>>, first |-> 10992, second |-> -1], \* 'midcir;'
  [name |-> <<109,105,100,100,111,116,59>>, first |-> 183, second |-> -1], \* 'middot;'
  [name |-> <<109,105,100,100,111,116>>, first |-> 183, second |-> -1], \* 'middot'
  [name |-> <<109,105,110,117,115,59>>, first |-> 8722, second |-> -1], \* 'minus;'
  [name |-> <<109,105,110,117,115,98,59>>, first |-> 8863, second |-> -1], \* 'minusb;'
  [name |-> <<109,105,110,117,115,100,59>>, first |-> 8760, second |-> -1], \* 'minusd;'
  [name |-> <<109,105,110,117,115,100,117,59>>, first |-> 10794, second |-> -1], \* 'minusdu;'
  [name |-> <<109,108,99,112,59>>, first |-> 10971, second |-> -1], \* 'mlcp;'
  [name |-> <<109,108,100,114,59>>, first |-> 8230, second |-> -1], \* 'mldr;'
  [name |-> <<109,110,112,108,117,115,59>>, first |-> 8723, second |-> -1], \* 'mnplus;'
  [name |-> <<109,111,100,101,108,115,59>>, first |-> 8871, second |-> -1], \* 'models;'
  [name |-> <<109,111,112,102,59>>, first |-> 120158, second |-> -1], \* 'mopf;'
  [name |-> <<109,112,59>>, first |-> 8723, second |-> -1], \* 'mp;'
  [name |-> <<109,115,99,114,59>>, first |-> 120002, second |-> -1], \* 'mscr;'
  [name |-> <<109,115,116,112,111,115,59>>, first |-> 8766, second |-> -1], \* 'mstpos;'
  [name |-> <<109,117,59>>, first |-> 956, second |-> -1], \* 'mu;'
  [name |-> <<109,117,108,116,105,109,97,112,59>>, first |-> 8888, second |-> -1], \* 'multimap;'
  [name |-> <<109,117,109,97,112,59>>, first |-> 8888, second |-> -1], \* 'mumap;'
  [name |-> <<110,71,103,59>>, first |-> 8921, second |-> 824], \* 'nGg;'
  [name |-> <<110,71,116,59>>, first |-> 8811, second |-> 8402], \* 'nGt;'
  [name |-> <<110,71,116,118,59>>, first |-> 8811, second |-> 824], \* 'nGtv;'
  [name |-> <<110,76,101,102,116,97,114,114,111,119,59>>, first |-> 8653, second |-> -1], \* 'nLeftarrow;'
  [name |-> <<110,76,101,102,116,114,105,103,104,116,97,114,114,111,119,59>>, first |-> 8654, second |-> -1], \* 'nLeftrightarrow;'
  [name |-> <<110,76,108,59>>, first |-> 8920, second |-> 824], \* 'nLl;'
  [name |-> <<110,76,116,59>>, first |-> 8810, second |-> 8402], \* 'nLt;'
  [name |-> <<110,76,116,118,59>>, first |-> 8810, second |-> 824], \* 'nLtv;'
  [name |-> <<110,82,105,103,104,116,97,114,114,111,119,59>>, first |-> 8655, second |-> -1], \* 'nRightarrow;'
  [name |-> <<110,86,68,97,115,104,59>>, first |-> 8879, second |-> -1], \* 'nVDash;'
  [name |-> <<110,86,100,97,115,104,59>>, first |-> 8878, second |-> -1], \* 'nVdash;'
  [name |-> <<110,97,98,108,97,59>>, first |-> 8711, second |-> -1], \* 'nabla;'
  [name |-> <<110,97,99,117,116,101,59>>, first |-> 324, second |-> -1], \* 'nacute;'
  [name |-> <<110,97,110,103,59>>, first |-> 8736, second |-> 8402], \* 'nang;'
  [name |-> <<110,97,112,59>>, first |-> 8777, second |-> -1], \* 'nap;'
  [name |-> <<110,97,112,69,59>>, first |-> 10864, second |-> 824], \* 'napE;'
  [name |-> <<110,97,112,105,100,59>>, first |-> 8779, second |-> 824], \* 'napid;'
  [name |-> <<110,97,112,111,115,59>>, first |-> 329, second |-> -1], \* 'napos;'
  [name |-> <<110,97,112,112,114,111,120,59>>, first |-> 8777, second |-> -1], \* 'napprox;'
  [name |-> <<110,97,116,117,114,59>>, first |-> 9838, second |-> -1], \* 'natur;'
  [name |-> <<110,97,116,117,114,97,108,59>>, first |-> 9838, second |-> -1], \* 'natural;'
  [name |-> <<110,97,116,117,114,97,108,115,59>>, first |-> 8469, second |-> -1], \* 'naturals;'
  [name |-> <<110,98,115,112,59>>, first |-> 160, second |-> -1], \* 'nbsp;'
  [name |-> <<110,98,115,112>>, first |-> 160, second |-> -1], \* 'nbsp'
  [name |-> <<110,98,117,109,112,59>>, first |-> 8782, second |-> 824], \* 'nbump;'
  [name |-> <<110,98,117,109,112,101,59>>, first |-> 8783, second |-> 824], \* 'nbumpe;'
  [name |-> <<110,99,97,112,59>>, first |-> 10819, second |-> -1], \* 'ncap;'
  [name |-> <<110,99,97,114,111,110,59>>, first |-> 328, second |-> -1], \* 'ncaron;'
  [name |-> <<110,99,101,100,105,108,59>>, first |-> 326, second |-> -1], \* 'ncedil;'
  [name |-> <<110,99,111,110,103,59>>, first |-> 8775, second |-> -1], \* 'ncong;'
  [name |-> <<110,99,111,110,103,100,111,116,59>>, first |-> 10861, second |-> 824], \* 'ncongdot;'
  [name |-> <<110,99,117,112,59>>, first |-> 10818, second |-> -1], \* 'ncup;'
  [name |-> <<110,99,121,59>>, first |-> 1085, second |-> -1], \* 'ncy;'
  [name |-> <<110,100,97,115,104,59>>, first |-> 8211, second |-> -1], \* 'ndash;'
  [name |-> <<110,101,59>>, first |-> 8800, second |-> -1], \* 'ne;'
  [name |-> <<110,101,65,114,114,59>>, first |-> 8663, second |-> -1], \* 'neArr;'
  [name |-> <<110,101,97,114,104,107,59>>, first |-> 10532, second |-> -1], \* 'nearhk;'
  [name |-> <<110,101,97,114,114,59>>, first |-> 8599, second |-> -1], \* 'nearr;'
  [name |-> <<110,101,97,114,114,111,119,59>>, first |-> 8599, second |-> -1], \* 'nearrow;'
  [name |-> <<110,101,100,111,116,59>>, first |-> 8784, second |-> 824], \* 'nedot;'
  [name |-> <<110,101,113,117,105,118,59>>, first |-> 8802, second |-> -1], \* 'nequiv;'
  [name |-> <<110,101,115,101,97,114,59>>, first |-> 10536, second |-> -1], \* 'nesear;'
  [name |-> <<110,101,115,105,109,59>>, first |-> 8770, second |-> 824], \* 'nesim;'
  [name |-> <<110,101,120,105,115,116,59>>, first |-> 8708, second |-> -1], \* 'nexist;'
  [name |-> <<110,101,120,105,115,116,115,59>>, first |-> 8708, second |-> -1], \* 'nexists;'
  [name |-> <<110,102,114,59>>, first |-> 120107, second |-> -1], \* 'nfr;'
  [name |-> <<110,103,69,59>>, first |-> 8807, second |-> 824], \* 'ngE;'
  [name |-> <<110,103,101,59>>, first |-> 8817, second |-> -1], \* 'nge;'
  [name |-> <<110,103,101,113,59>>, first |-> 8817, second |-> -1], \* 'ngeq;'
  [name |-> <<110,103,101,113,113,59>>, first |-> 8807, second |-> 824], \* 'ngeqq;'
  [name |-> <<110,103,101,113,115,108,97,110,116,59>>, first |-> 10878, second |-> 824], \* 'ngeqslant;'
  [name |-> <<110,103,101,115,59>>, first |-> 10878, second |-> 824], \* 'nges;'
  [name |-> <<110,103,115,105,109,59>>, first |-> 8821, second |-> -1], \* 'ngsim;'
  [name |-> <<110,103,116,59>>, first |-> 8815, second |-> -1], \* 'ngt;'
  [name |-> <<110,103,116,114,59>>, first |-> 8815, second |-> -1], \* 'ngtr;'
  [name |-> <<110,104,65,114,114,59>>, first |-> 8654, second |-> -1], \* 'nhArr;'
  [name |-> <<110,104,97,114,114,59>>, first |-> 8622, second |-> -1], \* 'nharr;'
  [name |-> <<110,104,112,97,114,59>>, first |-> 10994, second |-> -1], \* 'nhpar;'
  [name |-> <<110,105,59>>, first |-> 8715, second |-> -1], \* 'ni;'
  [name |-> <<110,105,115,59>>, first |-> 8956, second |-> -1], \* 'nis;'
  [name |-> <<110,105,115,100,59>>, first |-> 8954, second |-> -1], \* 'nisd;'
  [name |-> <<110,105,118,59>>, first |-> 8715, second |-> -1], \* 'niv;'
  [name |-> <<110,106,99,121,59>>, first |-> 1114, second |-> -1], \* 'njcy;'
  [name |-> <<110,108,65,114,114,59>>, first |-> 8653, second |-> -1], \* 'nlArr;'
  [name |-> <<110,108,69,59>>, first |-> 8806, second |-> 824], \* 'nlE;'
  [name |-> <<110,108,97,114,114,59>>, first |-> 8602, second |-> -1], \* 'nlarr;'
  [name |-> <<110,108,100,114,59>>, first |-> 8229, second |-> -1], \* 'nldr;'
  [name |-> <<110,108,101,59>>, first |-> 8816, second |-> -1], \* 'nle;'
  [name |-> <<110,108,101,102,116,97,114,114,111,119,59>>, first |-> 8602, second |-> -1], \* 'nleftarrow;'
  [name |-> <<110,108,101,102,116,114,105,103,104,116,97,114,114,111,119,59>>, first |-> 8622, second |-> -1], \* 'nleftrightarrow;'
  [name |-> <<110,108,101,113,59>>, first |-> 8816, second |-> -1], \* 'nleq;'
  [name |-> <<110,108,101,113,113,59>>, first |-> 8806, second |-> 824], \* 'nleqq;'
  [name |-> <<110,108,101,113,115,108,97,110,116,59>>, first |-> 10877, second |-> 824], \* 'nleqslant;'
  [name |-> <<110,108,101,115,59>>, first |-> 10877, second |-> 824], \* 'nles;'
  [name |-> <<110,108,101,115,115,59>>, first |-> 8814, second |-> -1], \* 'nless;'
  [name |-> <<110,108,115,105,109,59>>, first |-> 8820, second |-> -1], \* 'nlsim;'
  [name |-> <<110,108,116,59>>, first |-> 8814, second |-> -1], \* 'nlt;'
  [name |-> <<110,108,116,114,105,59>>, first |-> 8938, second |-> -1], \* 'nltri;'
  [name |-> <<110,108,116,114,105,101,59>>, first |-> 8940, second |-> -1], \* 'nltrie;'
  [name |-> <<110,109,105,100,59>>, first |-> 8740, second |-> -1], \* 'nmid;'
  [name |-> <<110,111,112,102,59>>, first |-> 120159, second |-> -1], \* 'nopf;'
  [name |-> <<110,111,116,59>>, first |-> 172, second |-> -1], \* 'not;'
  [name |-> <<110,111,116,105,110,59>>, first |-> 8713, second |-> -1], \* 'notin;'
  [name |-> <<110,111,116,105,110,69,59>>, first |-> 8953, second |-> 824], \* 'notinE;'
  [name |-> <<110,111,116,105,110,100,111,116,59>>, first |-> 8949, second |-> 824], \* 'notindot;'
  [name |-> <<110,111,116,105,110,118,97,59>>, first |-> 8713, second |-> -1], \* 'notinva;'
  [name |-> <<110,111,116,105,110,118,98,59>>, first |-> 8951, second |-> -1], \* 'notinvb;'
  [name |-> <<110,111,116,105,110,118,99,59>>, first |-> 8950, second |-> -1], \* 'notinvc;'
  [name |-> <<110,111,116,110,105,59>>, first |-> 8716, second |-> -1], \* 'notni;'
  [name |-> <<110,111,116,110,105,118,97,59>>, first |-> 8716, second |-> -1], \* 'notniva;'
  [name |-> <<110,111,116,110,105,118,98,59>>, first |-> 8958, second |-> -1], \* 'notnivb;'
  [name |-> <<110,111,116,110,105,118,99,59>>, first |-> 8957, second |-> -1], \* 'notnivc;'
  [name |-> <<110,111,116>>, first |-> 172, second |-> -1], \* 'not'
  [name |-> <<110,112,97,114,59>>, first |-> 8742, second |-> -1], \* 'npar;'
  [name |-> <<110,112,97,114,97,108,108,101,108,59>>, first |-> 8742, second |-> -1], \* 'nparallel;'
  [name |-> <<110,112,97,114,115,108,59>>, first |-> 11005, second |-> 8421], \* 'nparsl;'
  [name |-> <<110,112,97,114,116,59>>, first |-> 8706, second |-> 824], \* 'npart;'
  [name |-> <<110,112,111,108,105,110,116,59>>, first |-> 10772, second |-> -1], \* 'npolint;'
  [name |-> <<110,112,114,59>>, first |-> 8832, second |-> -1], \* 'npr;'
  [name |-> <<110,112,114,99,117,101,59>>, first |-> 8928, second |-> -1], \* 'nprcue;'
  [name |-> <<110,112,114,101,59>>, first |-> 10927, second |-> 824], \* 'npre;'
  [name |-> <<110,112,114,101,99,59>>, first |-> 8832, second |-> -1], \* 'nprec;'
  [name |-> <<110,112,114,101,99,101,113,59>>, first |-> 10927, second |-> 824], \* 'npreceq;'
  [name |-> <<110,114,65,114,114,59>>, first |-> 8655, second |-> -1], \* 'nrArr;'
  [name |-> <<110,114,97,114,114,59>>, first |-> 8603, second |-> -1], \* 'nrarr;'
  [name |-> <<110,114,97,114,114,99,59>>, first |-> 10547, second |-> 824], \* 'nrarrc;'
  [name |-> <<110,114,97,114,114,119,59>>, first |-> 8605, second |-> 824], \* 'nrarrw;'
  [name |-> <<110,114,105,103,104,116,97,114,114,111,119,59>>, first |-> 8603, second |-> -1], \* 'nrightarrow;'
  [name |-> <<110,114,116,114,105,59>>, first |-> 8939, second |-> -1], \* 'nrtri;'
  [name |-> <<110,114,116,114,105,101,59>>, first |-> 8941, second |-> -1], \* 'nrtrie;'
  [name |-> <<110,115,99,59>>, first |-> 8833, second |-> -1], \* 'nsc;'
  [name |-> <<110,115,99,99,117,101,59>>, first |-> 8929, second |-> -1], \* 'nsccue;'
  [name |-> <<110,115,99,101,59>>, first |-> 10928, second |-> 824], \* 'nsce;'
  [name |-> <<110,115,99,114,59>>, first |-> 120003, second |-> -1], \* 'nscr;'
  [name |-> <<110,115,104,111,114,116,109,105,100,59>>, first |-> 8740, second |-> -1], \* 'nshortmid;'
  [name |-> <<110,115,104,111,114,116,112,97,114,97,108,108,101,108,59>>, first |-> 8742, second |-> -1], \* 'nshortparallel;'
  [name |-> <<110,115,105,109,59>>, first |-> 8769, second |-> -1], \* 'nsim;'
  [name |-> <<110,115,105,109,101,59>>, first |-> 8772, second |-> -1], \* 'nsime;'
  [name |-> <<110,115,105,109,101,113,59>>, first |-> 8772, second |-> -1], \* 'nsimeq;'
  [name |-> <<110,115,109,105,100,59>>, first |-> 8740, second |-> -1], \* 'nsmid;'
  [name |-> <<110,115,112,97,114,59>>, first |-> 8742, second |-> -1], \* 'nspar;'
  [name |-> <<110,115,113,115,117,98,101,59>>, first |-> 8930, second |-> -1], \* 'nsqsube;'
  [name |-> <<110,115,113,115,117,112,101,59>>, first |-> 8931, second |-> -1], \* 'nsqsupe;'
  [name |-> <<110,115,117,98,59>>, first |-> 8836, second |-> -1], \* 'nsub;'
  [name |-> <<110,115,117,98,69,59>>, first |-> 10949, second |-> 824], \* 'nsubE;'
  [name |-> <<110,115,117,98,101,59>>, first |-> 8840, second |-> -1], \* 'nsube;'
  [name |-> <<110,115,117,98,115,101,116,59>>, first |-> 8834, second |-> 8402], \* 'nsubset;'
  [name |-> <<110,115,117,98,115,101,116,101,113,59>>, first |-> 8840, second |-> -1], \* 'nsubseteq;'
  [name |-> <<110,115,117,98,115,101,116,101,113,113,59>>, first |-> 10949, second |-> 824], \* 'nsubseteqq;'
  [name |-> <<110,115,117,99,99,59>>, first |-> 8833, second |-> -1], \* 'nsucc;'
  [name |-> <<110,115,117,99,99,101,113,59>>, first |-> 10928, second |-> 824], \* 'nsucceq;'
  [name |-> <<110,115,117,112,59>>, first |-> 8837, second |-> -1], \* 'nsup;'
  [name |-> <<110,115,117,112,69,59>>, first |-> 10950, second |-> 824], \* 'nsupE;'
  [name |-> <<110,115,117,112,101,59>>, first |-> 8841, second |-> -1], \* 'nsupe;'
  [name |-> <<110,115,117,112,115,101,116,59>>, first |-> 8835, second |-> 8402], \* 'nsupset;'
  [name |-> <<110,115,117,112,115,101,116,101,113,59>>, first |-> 8841, second |-> -1], \* 'nsupseteq;'
  [name |-> <<110,115,117,112,115,101,116,101,113,113,59>>, first |-> 10950, second |-> 824], \* 'nsupseteqq;'
  [name |-> <<110,116,103,108,59>>, first |-> 8825, second |-> -1], \* 'ntgl;'
  [name |-> <<110,116,105,108,100,101,59>>, first |-> 241, second |-> -1], \* 'ntilde;'
  [name |-> <<110,116,105,108,100,101>>, first |-> 241, second |-> -1], \* 'ntilde'
  [name |-> <<110,116,108,103,59>>, first |-> 8824, second |-> -1], \* 'ntlg;'
  [name |-> <<110,116,114,105,97,110,103,108,101,108,101,102,116,59>>, first |-> 8938, second |-> -1], \* 'ntriangleleft;'
  [name |-> <<110,116,114,105,97,110,103,108,101,108,101,102,116,101,113,59>>, first |-> 8940, second |-> -1], \* 'ntrianglelefteq;'
  [name |-> <<110,116,114,105,97,110,103,108,101,114,105,103,104,116,59>>, first |-> 8939, second |-> -1], \* 'ntriangleright;'
  [name |-> <<110,116,114,105,97,110,103,108,101,114,105,103,104,116,101,113,59>>, first |-> 8941, second |-> -1], \* 'ntrianglerighteq;'
  [name |-> <<110,117,59>>, first |-> 957, second |-> -1], \* 'nu;'
  [name |-> <<110,117,109,59>>, first |-> 35, second |-> -1], \* 'num;'
  [name |-> <<110,117,109,101,114,111,59>>, first |-> 8470, second |-> -1], \* 'numero;'
  [name |-> <<110,117,109,115,112,59>>, first |-> 8199, second |-> -1], \* 'numsp;'
  [name |-> <<110,118,68,97,115,104,59>>, first |-> 8877, second |-> -1], \* 'nvDash;'
  [name |-> <<110,118,72,97,114,114,59>>, first |-> 10500, second |-> -1], \* 'nvHarr;'
  [name |-> <<110,118,97,112,59>>, first |-> 8781, second |-> 8402], \* 'nvap;'
  [name |-> <<110,118,100,97,115,104,59>>, first |-> 8876, second |-> -1], \* 'nvdash;'
  [name |-> <<110,118,103,101,59>>, first |-> 8805, second |-> 8402], \* 'nvge;'
  [name |-> <<110,118,103,116,59>>, first |-> 62, second |-> 8402], \* 'nvgt;'
  [name |-> <<110,118,105,110,102,105,110,59>>, first |-> 10718, second |-> -1], \* 'nvinfin;'
  [name |-> <<110,118,108,65,114,114,59>>, first |-> 10498, second |-> -1], \* 'nvlArr;'
  [name |-> <<110,118,108,101,59>>, first |-> 8804, second |-> 8402], \* 'nvle;'
  [name |-> <<110,118,108,116,59>>, first |-> 60, second |-> 8402], \* 'nvlt;'
  [name |-> <<110,118,108,116,114,105,101,59>>, first |-> 8884, second |-> 8402], \* 'nvltrie;'
  [name |-> <<110,118,114,65,114,114,59>>, first |-> 10499, second |-> -1], \* 'nvrArr;'
  [name |-> <<110,118,114,116,114,105,101,59>>, first |-> 8885, second |-> 8402], \* 'nvrtrie;'
  [name |-> <<110,118,115,105,109,59>>, first |-> 8764, second |-> 8402], \* 'nvsim;'
  [name |-> <<110,119,65,114,114,59>>, first |-> 8662, second |-> -1], \* 'nwArr;'
  [name |-> <<110,119,97,114,104,107,59>>, first |-> 10531, second |-> -1], \* 'nwarhk;'
  [name |-> <<110,119,97,114,114,59>>, first |-> 8598, second |-> -1], \* 'nwarr;'
  [name |-> <<110,119,97,114,114,111,119,59>>, first |-> 8598, second |-> -1], \* 'nwarrow;'
  [name |-> <<110,119,110,101,97,114,59>>, first |-> 10535, second |-> -1], \* 'nwnear;'
  [name |-> <<111,83,59>>, first |-> 9416, second |-> -1], \* 'oS;'
  [name |-> <<111,97,99,117,116,101,59>>, first |-> 243, second |-> -1], \* 'oacute;'
  [name |-> <<111,97,99,117,116,101>>, first |-> 243, second |-> -1], \* 'oacute'
  [name |-> <<111,97,115,116,59>>, first |-> 8859, second |-> -1], \* 'oast;'
  [name |-> <<111,99,105,114,59>>, first |-> 8858, second |-> -1], \* 'ocir;'
  [name |-> <<111,99,105,114,99,59>>, first |-> 244, second |-> -1], \* 'ocirc;'
  [name |-> <<111,99,105,114,99>>, first |-> 244, second |-> -1], \* 'ocirc'
  [name |-> <<111,99,121,59>>, first |-> 1086, second |-> -1], \* 'ocy;'
  [name |-> <<111,100,97,115,104,59>>, first |-> 8861, second |-> -1], \* 'odash;'
  [name |-> <<111,100,98,108,97,99,59>>, first |-> 337, second |-> -1], \* 'odblac;'
  [name |-> <<111,100,105,118,59>>, first |-> 10808, second |-> -1], \* 'odiv;'
  [name |-> <<111,100,111,116,59>>, first |-> 8857, second |-> -1], \* 'odot;'
  [name |-> <<111,100,115,111,108,100,59>>, first |-> 10684, second |-> -1], \* 'odsold;'
  [name |-> <<111,101,108,105,103,59>>, first |-> 339, second |-> -1], \* 'oelig;'
  [name |-> <<111,102,99,105,114,59>>, first |-> 10687, second |-> -1], \* 'ofcir;'
  [name |-> <<111,102,114,59>>, first |-> 120108, second |-> -1], \* 'ofr;'
  [name |-> <<111,103,111,110,59>>, first |-> 731, second |-> -1], \* 'ogon;'
  [name |-> <<111,103,114,97,118,101,59>>, first |-> 242, second |-> -1], \* 'ograve;'
  [name |-> <<111,103,114,97,118,101>>, first |-> 242, second |-> -1], \* 'ograve'
  [name |-> <<111,103,116,59>>, first |-> 10689, second |-> -1], \* 'ogt;'
  [name |-> <<111,104,98,97,114,59>>, first |-> 10677, second |-> -1], \* 'ohbar;'
  [name |-> <<111,104,109,59>>, first |-> 937, second |-> -1], \* 'ohm;'
  [name |-> <<111,105,110,116,59>>, first |-> 8750, second |-> -1], \* 'oint;'
  [name |-> <<111,108,97,114,114,59>>, first |-> 8634, second |-> -1], \* 'olarr;'
  [name |-> <<111,108,99,105,114,59>>, first |-> 10686, second |-> -1], \* 'olcir;'
  [name |-> <<111,108,99,114,111,115,115,59>>, first |-> 10683, second |-> -1], \* 'olcross;'
  [name |-> <<111,108,105,110,101,59>>, first |-> 8254, second |-> -1], \* 'oline;'
  [name |-> <<111,108,116,59>>, first |-> 10688, second |-> -1], \* 'olt;'
  [name |-> <<111,109,97,99,114,59>>, first |-> 333, second |-> -1], \* 'omacr;'
  [name |-> <<111,109,101,103,97,59>>, first |-> 969, second |-> -1], \* 'omega;'
  [name |-> <<111,109,105,99,114,111,110,59>>, first |-> 959, second |-> -1], \* 'omicron;'
  [name |-> <<111,109,105,100,59>>, first |-> 10678, second |-> -1], \* 'omid;'
  [name |-> <<111,109,105,110,117,115,59>>, first |-> 8854, second |-> -1], \* 'ominus;'
  [name |-> <<111,111,112,102,59>>, first |-> 120160, second |-> -1], \* 'oopf;'
  [name |-> <<111,112,97,114,59>>, first |-> 10679, second |-> -1], \* 'opar;'
  [name |-> <<111,112,101,114,112,59>>, first |-> 10681, second |-> -1], \* 'operp;'
  [name |-> <<111,112,108,117,115,59>>, first |-> 8853, second |-> -1], \* 'oplus;'
  [name |-> <<111,114,59>>, first |-> 8744, second |-> -1], \* 'or;'
  [name |-> <<111,114,97,114,114,59>>, first |-> 8635, second |-> -1], \* 'orarr;'
  [name |-> <<111,114,100,59>>, first |-> 10845, second |-> -1], \* 'ord;'
  [name |-> <<111,114,100,101,114,59>>, first |-> 8500, second |-> -1], \* 'order;'
  [name |-> <<111,114,100,101,114,111,102,59>>, first |-> 8500, second |-> -1], \* 'orderof;'
  [name |-> <<111,114,100,102,59>>, first |-> 170, second |-> -1], \* 'ordf;'
  [name |-> <<111,114,100,102>>, first |-> 170, second |-> -1], \* 'ordf'
  [name |-> <<111,114,100,109,59>>, first |-> 186, second |-> -1], \* 'ordm;'
  [name |-> <<111,114,100,109>>, first |-> 186, second |-> -1], \* 'ordm'
  [name |-> <<111,114,105,103,111,102,59>>, first |-> 8886, second |-> -1], \* 'origof;'
  [name |-> <<111,114,111,114,59>>, first |-> 10838, second |-> -1], \* 'oror;'
  [name |-> <<111,114,115,108,111,112,101,59>>, first |-> 10839, second |-> -1], \* 'orslope;'
  [name |-> <<111,114,118,59>>, first |-> 10843, second |-> -1], \* 'orv;'
  [name |-> <<111,115,99,114,59>>, first |-> 8500, second |-> -1], \* 'oscr;'
  [name |-> <<111,115,108,97,115,104,59>>, first |-> 248, second |-> -1], \* 'oslash;'
  [name |-> <<111,115,108,97,115,104>>, first |-> 248, second |-> -1], \* 'oslash'
  [name |-> <<111,115,111,108,59>>, first |-> 8856, second |-> -1], \* 'osol;'
  [name |-> <<111,116,105,108,100,101,59>>, first |-> 245, second |-> -1], \* 'otilde;'
  [name |-> <<111,116,105,108,100,101>>, first |-> 245, second |-> -1], \* 'otilde'
  [name |-> <<111,116,105,109,101,115,59>>, first |-> 8855, second |-> -1], \* 'otimes;'
  [name |-> <<111,116,105,109,101,115,97,115,59>>, first |-> 10806, second |-> -1], \* 'otimesas;'
  [name |-> <<111,117,109,108,59>>, first |-> 246, second |-> -1], \* 'ouml;'
  [name |-> <<111,117,109,108>>, first |-> 246, second |-> -1], \* 'ouml'
  [name |-> <<111,118,98,97,114,59>>, first |-> 9021, second |-> -1], \* 'ovbar;'
  [name |-> <<112,97,114,59>>, first |-> 8741, second |-> -1], \* 'par;'
  [name |-> <<112,97,114,97,59>>, first |-> 182, second |-> -1], \* 'para;'
  [name |-> <<112,97,114,97>>, first |-> 182, second |-> -1], \* 'para'
  [name |-> <<112,97,114,97,108,108,101,108,59>>, first |-> 8741, second |-> -1], \* 'parallel;'
  [name |-> <<112,97,114,115,105,109,59>>, first |-> 10995, second |-> -1], \* 'parsim;'
  [name |-> <<112,97,114,115,108,59>>, first |-> 11005, second |-> -1], \* 'parsl;'
  [name |-> <<112,97,114,116,59>>, first |-> 8706, second |-> -1], \* 'part;'
  [name |-> <<112,99,121,59>>, first |-> 1087, second |-> -1], \* 'pcy;'
  [name |-> <<112,101,114,99,110,116,59>>, first |-> 37, second |-> -1], \* 'percnt;'
  [name |-> <<112,101,114,105,111,100,59>>, first |-> 46, second |-> -1], \* 'period;'
  [name |-> <<112,101,114,109,105,108,59>>, first |-> 8240, second |-> -1], \* 'permil;'
  [name |-> <<112,101,114,112,59>>, first |-> 8869, second |-> -1], \* 'perp;'
  [name |-> <<112,101,114,116,101,110,107,59>>, first |-> 8241, second |-> -1], \* 'pertenk;'
  [name |-> <<112,102,114,59>>, first |-> 120109, second |-> -1], \* 'pfr;'
  [name |-> <<112,104,105,59>>, first |-> 966, second |-> -1], \* 'phi;'
  [name |-> <<112,104,105,118,59>>, first |-> 981, second |-> -1], \* 'phiv;'
  [name |-> <<112,104,109,109,97,116,59>>, first |-> 8499, second |-> -1], \* 'phmmat;'
  [name |-> <<112,104,111,110,101,59>>, first |-> 9742, second |-> -1], \* 'phone;'
  [name |-> <<112,105,59>>, first |-> 960, second |-> -1], \* 'pi;'
  [name |-> <<112,105,116,99,104,102,111,114,107,59>>, first |-> 8916, second |-> -1], \* 'pitchfork;'
  [name |-> <<112,105,118,59>>, first |-> 982, second |-> -1], \* 'piv;'
  [name |-> <<112,108,97,110,99,107,59>>, first |-> 8463, second |-> -1], \* 'planck;'
  [name |-> <<112,108,97,110,99,107,104,59>>, first |-> 8462, second |-> -1], \* 'planckh;'
  [name |-> <<112,108,97,110,107,118,59>>, first |-> 8463, second |-> -1], \* 'plankv;'
  [name |-> <<112,108,117,115,59>>, first |-> 43, second |-> -1], \* 'plus;'
  [name |-> <<112,108,117,115,97,99,105,114,59>>, first |-> 10787, second |-> -1], \* 'plusacir;'
  [name |-> <<112,108,117,115,98,59>>, first |-> 8862, second |-> -1], \* 'plusb;'
  [name |-> <<112,108,117,115,99,105,114,59>>, first |-> 10786, second |-> -1], \* 'pluscir;'
  [name |-> <<112,108,117,115,100,111,59>>, first |-> 8724, second |-> -1], \* 'plusdo;'
  [name |-> <<112,108,117,115,100,117,59>>, first |-> 10789, second |-> -1], \* 'plusdu;'
  [name |-> <<112,108,117,115,101,59>>, first |-> 10866, second |-> -1], \* 'pluse;'
  [name |-> <<112,108,117,115,109,110,59>>, first |-> 177, second |-> -1], \* 'plusmn;'
  [name |-> <<112,108,117,115,109,110>>, first |-> 177, second |-> -1], \* 'plusmn'
  [name |-> <<112,108,117,115,115,105,109,59>>, first |-> 10790, second |-> -1], \* 'plussim;'
  [name |-> <<112,108,117,115,116,119,111,59>>, first |-> 10791, second |-> -1], \* 'plustwo;'
  [name |-> <<112,109,59>>, first |-> 177, second |-> -1], \* 'pm;'
  [name |-> <<112,111,105,110,116,105,110,116,59>>, first |-> 10773, second |-> -1], \* 'pointint;'
  [name |-> <<112,111,112,102,59>>, first |-> 120161, second |-> -1], \* 'popf;'
  [name |-> <<112,111,117,110,100,59>>, first |-> 163, second |-> -1], \* 'pound;'
  [name |-> <<112,111,117,110,100>>, first |-> 163, second |-> -1], \* 'pound'
  [name |-> <<112,114,59>>, first |-> 8826, second |-> -1], \* 'pr;'
  [name |-> <<112,114,69,59>>, first |-> 10931, second |-> -1], \* 'prE;'
  [name |-> <<112,114,97,112,59>>, first |-> 10935, second |-> -1], \* 'prap;'
  [name |-> <<112,114,99,117,101,59>>, first |-> 8828, second |-> -1], \* 'prcue;'
  [name |-> <<112,114,101,59>>, first |-> 10927, second |-> -1], \* 'pre;'
  [name |-> <<112,114,101,99,59>>, first |-> 8826, second |-> -1], \* 'prec;'
  [name |-> <<112,114,101,99,97,112,112,114,111,120,59>>, first |-> 10935, second |-> -1], \* 'precapprox;'
  [name |-> <<112,114,101,99,99,117,114,108,121,101,113,59>>, first |-> 8828, second |-> -1], \* 'preccurlyeq;'
  [name |-> <<112,114,101,99,101,113,59>>, first |-> 10927, second |-> -1], \* 'preceq;'
  [name |-> <<112,114,101,99,110,97,112,112,114,111,120,59>>, first |-> 10937, second |-> -1], \* 'precnapprox;'
  [name |-> <<112,114,101,99,110,101,113,113,59>>, first |-> 10933, second |-> -1], \* 'precneqq;'
  [name |-> <<112,114,101,99,110,115,105,109,59>>, first |-> 8936, second |-> -1], \* 'precnsim;'
  [name |-> <<112,114,101,99,115,105,109,59>>, first |-> 8830, second |-> -1], \* 'precsim;'
  [name |-> <<112,114,105,109,101,59>>, first |-> 8242, second |-> -1], \* 'prime;'
  [name |-> <<112,114,105,109,101,115,59>>, first |-> 8473, second |-> -1], \* 'primes;'
  [name |-> <<112,114,110,69,59>>, first |-> 10933, second |-> -1], \* 'prnE;'
  [name |-> <<112,114,110,97,112,59>>, first |-> 10937, second |-> -1], \* 'prnap;'
  [name |-> <<112,114,110,115,105,109,59>>, first |-> 8936, second |-> -1], \* 'prnsim;'
  [name |-> <<112,114,111,100,59>>, first |-> 8719, second |-> -1], \* 'prod;'
  [name |-> <<112,114,111,102,97,108,97,114,59>>, first |-> 9006, second |-> -1], \* 'profalar;'
  [name |-> <<112,114,111,102,108,105,110,101,59>>, first |-> 8978, second |-> -1], \* 'profline;'
  [name |-> <<112,114,111,102,115,117,114,102,59>>, first |-> 8979, second |-> -1], \* 'profsurf;'
  [name |-> <<112,114,111,112,59>>, first |-> 8733, second |-> -1], \* 'prop;'
  [name |-> <<112,114,111,112,116,111,59>>, first |-> 8733, second |-> -1], \* 'propto;'
  [name |-> <<112,114,115,105,109,59>>, first |-> 8830, second |-> -1], \* 'prsim;'
  [name |-> <<112,114,117,114,101,108,59>>, first |-> 8880, second |-> -1], \* 'prurel;'
  [name |-> <<112,115,99,114,59>>, first |-> 120005, second |-> -1], \* 'pscr;'
  [name |-> <<112,115,105,59>>, first |-> 968, second |-> -1], \* 'psi;'
  [name |-> <<112,117,110,99,115,112,59>>, first |-> 8200, second |-> -1], \* 'puncsp;'
  [name |-> <<113,102,114,59>>, first |-> 120110, second |-> -1], \* 'qfr;'
  [name |-> <<113,105,110,116,59>>, first |-> 10764, second |-> -1], \* 'qint;'
  [name |-> <<113,111,112,102,59>>, first |-> 120162, second |-> -1], \* 'qopf;'
  [name |-> <<113,112,114,105,109,101,59>>, first |-> 8279, second |-> -1], \* 'qprime;'
  [name |-> <<113,115,99,114,59>>, first |-> 120006, second |-> -1], \* 'qscr;'
  [name |-> <<113,117,97,116,101,114,110,105,111,110,115,59>>, first |-> 8461, second |-> -1], \* 'quaternions;'
  [name |-> <<113,117,97,116,105,110,116,59>>, first |-> 10774, second |-> -1], \* 'quatint;'
  [name |-> <<113,117,101,115,116,59>>, first |-> 63, second |-> -1], \* 'quest;'
  [name |-> <<113,117,101,115,116,101,113,59>>, first |-> 8799, second |-> -1], \* 'questeq;'
  [name |-> <<113,117,111,116,59>>, first |-> 34, second |-> -1], \* 'quot;'
  [name |-> <<113,117,111,116>>, first |-> 34, second |-> -1], \* 'quot'
  [name |-> <<114,65,97,114,114,59>>, first |-> 8667, second |-> -1], \* 'rAarr;'
  [name |-> <<114,65,114,114,59>>, first |-> 8658, second |-> -1], \* 'rArr;'
  [name |-> <<114,65,116,97,105,108,59>>, first |-> 10524, second |-> -1], \* 'rAtail;'
  [name |-> <<114,66,97,114,114,59>>, first |-> 10511, second |-> -1], \* 'rBarr;'
  [name |-> <<114,72,97,114,59>>, first |-> 10596, second |-> -1], \* 'rHar;'
  [name |-> <<114,97,99,101,59>>, first |-> 8765, second |-> 817], \* 'race;'
  [name |-> <<114,97,99,117,116,101,59>>, first |-> 341, second |-> -1], \* 'racute;'
  [name |-> <<114,97,100,105,99,59>>, first |-> 8730, second |-> -1], \* 'radic;'
  [name |-> <<114,97,101,109,112,116,121,118,59>>, first |-> 10675, second |-> -1], \* 'raemptyv;'
  [name |-> <<114,97,110,103,59>>, first |-> 10217, second |-> -1], \* 'rang;'
  [name |-> <<114,97,110,103,100,59>>, first |-> 10642, second |-> -1], \* 'rangd;'
  [name |-> <<114,97,110,103,101,59>>, first |-> 10661, second |-> -1], \* 'range;'
  [name |-> <<114,97,110,103,108,101,59>>, first |-> 10217, second |-> -1], \* 'rangle;'
  [name |-> <<114,97,113,117,111,59>>, first |-> 187, second |-> -1], \* 'raquo;'
  [name |-> <<114,97,113,117,111>>, first |-> 187, second |-> -1], \* 'raquo'
  [name |-> <<114,97,114,114,59>>, first |-> 8594, second |-> -1], \* 'rarr;'
  [name |-> <<114,97,114,114,97,112,59>>, first |-> 10613, second |-> -1], \* 'rarrap;'
  [name |-> <<114,97,114,114,98,59>>, first |-> 8677, second |-> -1], \* 'rarrb;'
  [name |-> <<114,97,114,114,98,102,115,59>>, first |-> 10528, second |-> -1], \* 'rarrbfs;'
  [name |-> <<114,97,114,114,99,59>>, first |-> 10547, second |-> -1], \* 'rarrc;'
  [name |-> <<114,97,114,114,102,115,59>>, first |-> 10526, second |-> -1], \* 'rarrfs;'
  [name |-> <<114,97,114,114,104,107,59>>, first |-> 8618, second |-> -1], \* 'rarrhk;'
  [name |-> <<114,97,114,114,108,112,59>>, first |-> 8620, second |-> -1], \* 'rarrlp;'
  [name |-> <<114,97,114,114,112,108,59>>, first |-> 10565, second |-> -1], \* 'rarrpl;'
  [name |-> <<114,97,114,114,115,105,109,59>>, first |-> 10612, second |-> -1], \* 'rarrsim;'
  [name |-> <<114,97,114,114,116,108,59>>, first |-> 8611, second |-> -1], \* 'rarrtl;'
  [name |-> <<114,97,114,114,119,59>>, first |-> 8605, second |-> -1], \* 'rarrw;'
  [name |-> <<114,97,116,97,105,108,59>>, first |-> 10522, second |-> -1], \* 'ratail;'
  [name |-> <<114,97,116,105,111,59>>, first |-> 8758, second |-> -1], \* 'ratio;'
  [name |-> <<114,97,116,105,111,110,97,108,115,59>>, first |-> 8474, second |-> -1], \* 'rationals;'
  [name |-> <<114,98,97,114,114,59>>, first |-> 10509, second |-> -1], \* 'rbarr;'
  [name |-> <<114,98,98,114,107,59>>, first |-> 10099, second |-> -1], \* 'rbbrk;'
  [name |-> <<114,98,114,97,99,101,59>>, first |-> 125, second |-> -1], \* 'rbrace;'
  [name |-> <<114,98,114,97,99,107,59>>, first |-> 93, second |-> -1], \* 'rbrack;'
  [name |-> <<114,98,114,107,101,59>>, first |-> 10636, second |-> -1], \* 'rbrke;'
  [name |-> <<114,98,114,107,115,108,100,59>>, first |-> 10638, second |-> -1], \* 'rbrksld;'
  [name |-> <<114,98,114,107,115,108,117,59>>, first |-> 10640, second |-> -1], \* 'rbrkslu;'
  [name |-> <<114,99,97,114,111,110,59>>, first |-> 345, second |-> -1], \* 'rcaron;'
  [name |-> <<114,99,101,100,105,108,59>>, first |-> 343, second |-> -1], \* 'rcedil;'
  [name |-> <<114,99,101,105,108,59>>, first |-> 8969, second |-> -1], \* 'rceil;'
  [name |-> <<114,99,117,98,59>>, first |-> 125, second |-> -1], \* 'rcub;'
  [name |-> <<114,99,121,59>>, first |-> 1088, second |-> -1], \* 'rcy;'
  [name |-> <<114,100,99,97,59>>, first |-> 10551, second |-> -1], \* 'rdca;'
  [name |-> <<114,100,108,100,104,97,114,59>>, first |-> 10601, second |-> -1], \* 'rdldhar;'
  [name |-> <<114,100,113,117,111,59>>, first |-> 8221, second |-> -1], \* 'rdquo;'
  [name |-> <<114,100,113,117,111,114,59>>, first |-> 8221, second |-> -1], \* 'rdquor;'
  [name |-> <<114,100,115,104,59>>, first |-> 8627, second |-> -1], \* 'rdsh;'
  [name |-> <<114,101,97,108,59>>, first |-> 8476, second |-> -1], \* 'real;'
  [name |-> <<114,101,97,108,105,110,101,59>>, first |-> 8475, second |-> -1], \* 'realine;'
  [name |-> <<114,101,97,108,112,97,114,116,59>>, first |-> 8476, second |-> -1], \* 'realpart;'
  [name |-> <<114,101,97,108,115,59>>, first |-> 8477, second |-> -1], \* 'reals;'
  [name |-> <<114,101,99,116,59>>, first |-> 9645, second |-> -1], \* 'rect;'
  [name |-> <<114,101,103,59>>, first |-> 174, second |-> -1], \* 'reg;'
  [name |-> <<114,101,103>>, first |-> 174, second |-> -1], \* 'reg'
  [name |-> <<114,102,105,115,104,116,59>>, first |-> 10621, second |-> -1], \* 'rfisht;'
  [name |-> <<114,102,108,111,111,114,59>>, first |-> 8971, second |-> -1], \* 'rfloor;'
  [name |-> <<114,102,114,59>>, first |-> 120111, second |-> -1], \* 'rfr;'
  [name |-> <<114,104,97,114,100,59>>, first |-> 8641, second |-> -1], \* 'rhard;'
  [name |-> <<114,104,97,114,117,59>>, first |-> 8640, second |-> -1], \* 'rharu;'
  [name |-> <<114,104,97,114,117,108,59>>, first |-> 10604, second |-> -1], \* 'rharul;'
  [name |-> <<114,104,111,59>>, first |-> 961, second |-> -1], \* 'rho;'
  [name |-> <<114,104,111,118,59>>, first |-> 1009, second |-> -1], \* 'rhov;'
  [name |-> <<114,105,103,104,116,97,114,114,111,119,59>>, first |-> 8594, second |-> -1], \* 'rightarrow;'
  [name |-> <<114,105,103,104,116,97,114,114,111,119,116,97,105,108,59>>, first |-> 8611, second |-> -1], \* 'rightarrowtail;'
  [name |-> <<114,105,103,104,116,104,97,114,112,111,111,110,100,111,119,110,59>>, first |-> 8641, second |-> -1], \* 'rightharpoondown;'
  [name |-> <<114,105,103,104,116,104,97,114,112,111,111,110,117,112,59>>, first |-> 8640, second |-> -1], \* 'rightharpoonup;'
  [name |-> <<114,105,103,104,116,108,101,102,116,97,114,114,111,119,115,59>>, first |-> 8644, second |-> -1], \* 'rightleftarrows;'
  [name |-> <<114,105,103,104,116,108,101,102,116,104,97,114,112,111,111,110,115,59>>, first |-> 8652, second |-> -1], \* 'rightleftharpoons;'
  [name |-> <<114,105,103,104,116,114,105,103,104,116,97,114,114,111,119,115,59>>, first |-> 8649, second |-> -1], \* 'rightrightarrows;'
  [name |-> <<114,105,103,104,116,115,113,117,105,103,97,114,114,111,119,59>>, first |-> 8605, second |-> -1], \* 'rightsquigarrow;'
  [name |-> <<114,105,103,104,116,116,104,114,101,101,116,105,109,101,115,59>>, first |-> 8908, second |-> -1], \* 'rightthreetimes;'
  [name |-> <<114,105,110,103,59>>, first |-> 730, second |-> -1], \* 'ring;'
  [name |-> <<114,105,115,105,110,103,100,111,116,115,101,113,59>>, first |-> 8787, second |-> -1], \* 'risingdotseq;'
  [name |-> <<114,108,97,114,114,59>>, first |-> 8644, second |-> -1], \* 'rlarr;'
  [name |-> <<114,108,104,97,114,59>>, first |-> 8652, second |-> -1], \* 'rlhar;'
  [name |-> <<114,108,109,59>>, first |-> 8207, second |-> -1], \* 'rlm;'
  [name |-> <<114,109,111,117,115,116,59>>, first |-> 9137, second |-> -1], \* 'rmoust;'
  [name |-> <<114,109,111,117,115,116,97,99,104,101,59>>, first |-> 9137, second |-> -1], \* 'rmoustache;'
  [name |-> <<114,110,109,105,100,59>>, first |-> 10990, second |-> -1], \* 'rnmid;'
  [name |-> <<114,111,97,110,103,59>>, first |-> 10221, second |-> -1], \* 'roang;'
  [name |-> <<114,111,97,114,114,59>>, first |-> 8702, second |-> -1], \* 'roarr;'
  [name |-> <<114,111,98,114,107,59>>, first |-> 10215, second |-> -1], \* 'robrk;'
  [name |-> <<114,111,112,97,114,59>>, first |-> 10630, second |-> -1], \* 'ropar;'
  [name |-> <<114,111,112,102,59>>, first |-> 120163, second |-> -1], \* 'ropf;'
  [name |-> <<114,111,112,108,117,115,59>>, first |-> 10798, second |-> -1], \* 'roplus;'
  [name |-> <<114,111,116,105,109,101,115,59>>, first |-> 10805, second |-> -1], \* 'rotimes;'
  [name |-> <<114,112,97,114,59>>, first |-> 41, second |-> -1], \* 'rpar;'
  [name |-> <<114,112,97,114,103,116,59>>, first |-> 10644, second |-> -1], \* 'rpargt;'
  [name |-> <<114,112,112,111,108,105,110,116,59>>, first |-> 10770, second |-> -1], \* 'rppolint;'
  [name |-> <<114,114,97,114,114,59>>, first |-> 8649, second |-> -1], \* 'rrarr;'
  [name |-> <<114,115,97,113,117,111,59>>, first |-> 8250, second |-> -1], \* 'rsaquo;'
  [name |-> <<114,115,99,114,59>>, first |-> 120007, second |-> -1], \* 'rscr;'
  [name |-> <<114,115,104,59>>, first |-> 8625, second |-> -1], \* 'rsh;'
  [name |-> <<114,115,113,98,59>>, first |-> 93, second |-> -1], \* 'rsqb;'
  [name |-> <<114,115,113,117,111,59>>, first |-> 8217, second |-> -1], \* 'rsquo;'
  [name |-> <<114,115,113,117,111,114,59>>, first |-> 8217, second |-> -1], \* 'rsquor;'
  [name |-> <<114,116,104,114,101,101,59>>, first |-> 8908, second |-> -1], \* 'rthree;'
  [name |-> <<114,116,105,109,101,115,59>>, first |-> 8906, second |-> -1], \* 'rtimes;'
  [name |-> <<114,116,114,105,59>>, first |-> 9657, second |-> -1], \* 'rtri;'
  [name |-> <<114,116,114,105,101,59>>, first |-> 8885, second |-> -1], \* 'rtrie;'
  [name |-> <<114,116,114,105,102,59>>, first |-> 9656, second |-> -1], \* 'rtrif;'
  [name |-> <<114,116,114,105,108,116,114,105,59>>, first |-> 10702, second |-> -1], \* 'rtriltri;'
  [name |-> <<114,117,108,117,104,97,114,59>>, first |-> 10600, second |-> -1], \* 'ruluhar;'
  [name |-> <<114,120,59>>, first |-> 8478, second |-> -1], \* 'rx;'
  [name |-> <<115,97,99,117,116,101,59>>, first |-> 347, second |-> -1], \* 'sacute;'
  [name |-> <<115,98,113,117,111,59>>, first |-> 8218, second |-> -1], \* 'sbquo;'
  [name |-> <<115,99,59>>, first |-> 8827, second |-> -1], \* 'sc;'
  [name |-> <<115,99,69,59>>, first |-> 10932, second |-> -1], \* 'scE;'
  [name |-> <<115,99,97,112,59>>, first |-> 10936, second |-> -1], \* 'scap;'
  [name |-> <<115,99,97,114,111,110,59>>, first |-> 353, second |-> -1], \* 'scaron;'
  [name |-> <<115,99,99,117,101,59>>, first |-> 8829, second |-> -1], \* 'sccue;'
  [name |-> <<115,99,101,59>>, first |-> 10928, second |-> -1], \* 'sce;'
  [name |-> <<115,99,101,100,105,108,59>>, first |-> 351, second |-> -1], \* 'scedil;'
  [name |-> <<115,99,105,114,99,59>>, first |-> 349, second |-> -1], \* 'scirc;'
  [name |-> <<115,99,110,69,59>>, first |-> 10934, second |-> -1], \* 'scnE;'
  [name |-> <<115,99,110,97,112,59>>, first |-> 10938, second |-> -1], \* 'scnap;'
  [name |-> <<115,99,110,115,105,109,59>>, first |-> 8937, second |-> -1], \* 'scnsim;'
  [name |-> <<115,99,112,111,108,105,110,116,59>>, first |-> 10771, second |-> -1], \* 'scpolint;'
  [name |-> <<115,99,115,105,109,59>>, first |-> 8831, second |-> -1], \* 'scsim;'
  [name |-> <<115,99,121,59>>, first |-> 1089, second |-> -1], \* 'scy;'
  [name |-> <<115,100,111,116,59>>, first |-> 8901, second |-> -1], \* 'sdot;'
  [name |-> <<115,100,111,116,98,59>>, first |-> 8865, second |-> -1], \* 'sdotb;'
  [name |-> <<115,100,111,116,101,59>>, first |-> 10854, second |-> -1], \* 'sdote;'
  [name |-> <<115,101,65,114,114,59>>, first |-> 8664, second |-> -1], \* 'seArr;'
  [name |-> <<115,101,97,114,104,107,59>>, first |-> 10533, second |-> -1], \* 'searhk;'
  [name |-> <<115,101,97,114,114,59>>, first |-> 8600, second |-> -1], \* 'searr;'
  [name |-> <<115,101,97,114,114,111,119,59>>, first |-> 8600, second |-> -1], \* 'searrow;'
  [name |-> <<115,101,99,116,59>>, first |-> 167, second |-> -1], \* 'sect;'
  [name |-> <<115,101,99,116>>, first |-> 167, second |-> -1], \* 'sect'
  [name |-> <<115,101,109,105,59>>, first |-> 59, second |-> -1], \* 'semi;'
  [name |-> <<115,101,115,119,97,114,59>>, first |-> 10537, second |-> -1], \* 'seswar;'
  [name |-> <<115,101,116,109,105,110,117,115,59>>, first |-> 8726, second |-> -1], \* 'setminus;'
  [name |-> <<115,101,116,109,110,59>>, first |-> 8726, second |-> -1], \* 'setmn;'
  [name |-> <<115,101,120,116,59>>, first |-> 10038, second |-> -1], \* 'sext;'
  [name |-> <<115,102,114,59>>, first |-> 120112, second |-> -1], \* 'sfr;'
  [name |-> <<115,102,114,111,119,110,59>>, first |-> 8994, second |-> -1], \* 'sfrown;'
  [name |-> <<115,104,97,114,112,59>>, first |-> 9839, second |-> -1], \* 'sharp;'
  [name |-> <<115,104,99,104,99,121,59>>, first |-> 1097, second |-> -1], \* 'shchcy;'
  [name |-> <<115,104,99,121,59>>, first |-> 1096, second |-> -1], \* 'shcy;'
  [name |-> <<115,104,111,114,116,109,105,100,59>>, first |-> 8739, second |-> -1], \* 'shortmid;'
  [name |-> <<115,104,111,114,116,112,97,114,97,108,108,101,108,59>>, first |-> 8741, second |-> -1], \* 'shortparallel;'
  [name |-> <<115,104,121,59>>, first |-> 173, second |-> -1], \* 'shy;'
  [name |-> <<115,104,121>>, first |-> 173, second |-> -1], \* 'shy'
  [name |-> <<115,105,103,109,97,59>>, first |-> 963, second |-> -1], \* 'sigma;'
  [name |-> <<115,105,103,109,97,102,59>>, first |-> 962, second |-> -1], \* 'sigmaf;'
  [name |-> <<115,105,103,109,97,118,59>>, first |-> 962, second |-> -1], \* 'sigmav;'
  [name |-> <<115,105,109,59>>, first |-> 8764, second |-> -1], \* 'sim;'
  [name |-> <<115,105,109,100,111,116,59>>, first |-> 10858, second |-> -1], \* 'simdot;'
  [name |-> <<115,105,109,101,59>>, first |-> 8771, second |-> -1], \* 'sime;'
  [name |-> <<115,105,109,101,113,59>>, first |-> 8771, second |-> -1], \* 'simeq;'
  [name |-> <<115,105,109,103,59>>, first |-> 10910, second |-> -1], \* 'simg;'
  [name |-> <<115,105,109,103,69,59>>, first |-> 10912, second |-> -1], \* 'simgE;'
  [name |-> <<115,105,109,108,59>>, first |-> 10909, second |-> -1], \* 'siml;'
  [name |-> <<115,105,109,108,69,59>>, first |-> 10911, second |-> -1], \* 'simlE;'
  [name |-> <<115,105,109,110,101,59>>, first |-> 8774, second |-> -1], \* 'simne;'
  [name |-> <<115,105,109,112,108,117,115,59>>, first |-> 10788, second |-> -1], \* 'simplus;'
  [name |-> <<115,105,109,114,97,114,114,59>>, first |-> 10610, second |-> -1], \* 'simrarr;'
  [name |-> <<115,108,97,114,114,59>>, first |-> 8592, second |-> -1], \* 'slarr;'
  [name |-> <<115,109,97,108,108,115,101,116,109,105,110,117,115,59>>, first |-> 8726, second |-> -1], \* 'smallsetminus;'
  [name |-> <<115,109,97,115,104,112,59>>, first |-> 10803, second |-> -1], \* 'smashp;'
  [name |-> <<115,109,101,112,97,114,115,108,59>>, first |-> 10724, second |-> -1], \* 'smeparsl;'
  [name |-> <<115,109,105,100,59>>, first |-> 8739, second |-> -1], \* 'smid;'
  [name |-> <<115,109,105,108,101,59>>, first |-> 8995, second |-> -1], \* 'smile;'
  [name |-> <<115,109,116,59>>, first |-> 10922, second |-> -1], \* 'smt;'
  [name |-> <<115,109,116,101,59>>, first |-> 10924, second |-> -1], \* 'smte;'
  [name |-> <<115,109,116,101,115,59>>, first |-> 10924, second |-> 65024], \* 'smtes;'
  [name |-> <<115,111,102,116,99,121,59>>, first |-> 1100, second |-> -1], \* 'softcy;'
  [name |-> <<115,111,108,59>>, first |-> 47, second |-> -1], \* 'sol;'
  [name |-> <<115,111,108,98,59>>, first |-> 10692, second |-> -1], \* 'solb;'
  [name |-> <<115,111,108,98,97,114,59>>, first |-> 9023, second |-> -1], \* 'solbar;'
  [name |-> <<115,111,112,102,59>>, first |-> 120164, second |-> -1], \* 'sopf;'
  [name |-> <<115,112,97,100,101,115,59>>, first |-> 9824, second |-> -1], \* 'spades;'
  [name |-> <<115,112,97,100,101,115,117,105,116,59>>, first |-> 9824, second |-> -1], \* 'spadesuit;'
  [name |-> <<115,112,97,114,59>>, first |-> 8741, second |-> -1], \* 'spar;'
  [name |-> <<115,113,99,97,112,59>>, first |-> 8851, second |-> -1], \* 'sqcap;'
  [name |-> <<115,113,99,97,112,115,59>>, first |-> 8851, second |-> 65024], \* 'sqcaps;'
  [name |-> <<115,113,99,117,112,59>>, first |-> 8852, second |-> -1], \* 'sqcup;'
  [name |-> <<115,113,99,117,112,115,59>>, first |-> 8852, second |-> 65024], \* 'sqcups;'
  [name |-> <<115,113,115,117,98,59>>, first |-> 8847, second |-> -1], \* 'sqsub;'
  [name |-> <<115,113,115,117,98,101,59>>, first |-> 8849, second |-> -1], \* 'sqsube;'
  [name |-> <<115,113,115,117,98,115,101,116,59>>, first |-> 8847, second |-> -1], \* 'sqsubset;'
  [name |-> <<115,113,115,117,98,115,101,116,101,113,59>>, first |-> 8849, second |-> -1], \* 'sqsubseteq;'
  [name |-> <<115,113,115,117,112,59>>, first |-> 8848, second |-> -1], \* 'sqsup;'
  [name |-> <<115,113,115,117,112,101,59>>, first |-> 8850, second |-> -1], \* 'sqsupe;'
  [name |-> <<115,113,115,117,112,115,101,116,59>>, first |-> 8848, second |-> -1], \* 'sqsupset;'
  [name |-> <<115,113,115,117,112,115,101,116,101,113,59>>, first |-> 8850, second |-> -1], \* 'sqsupseteq;'
  [name |-> <<115,113,117,59>>, first |-> 9633, second |-> -1], \* 'squ;'
  [name |-> <<115,113,117,97,114,101,59>>, first |-> 9633, second |-> -1], \* 'square;'
  [name |-> <<115,113,117,97,114,102,59>>, first |-> 9642, second |-> -1], \* 'squarf;'
  [name |-> <<115,113,117,102,59>>, first |-> 9642, second |-> -1], \* 'squf;'
  [name |-> <<115,114,97,114,114,59>>, first |-> 8594, second |-> -1], \* 'srarr;'
  [name |-> <<115,115,99,114,59>>, first |-> 120008, second |-> -1], \* 'sscr;'
  [name |-> <<115,115,101,116,109,110,59>>, first |-> 8726, second |-> -1], \* 'ssetmn;'
  [name |-> <<115,115,109,105,108,101,59>>, first |-> 8995, second |-> -1], \* 'ssmile;'
  [name |-> <<115,115,116,97,114,102,59>>, first |-> 8902, second |-> -1], \* 'sstarf;'
  [name |-> <<115,116,97,114,59>>, first |-> 9734, second |-> -1], \* 'star;'
  [name |-> <<115,116,97,114,102,59>>, first |-> 9733, second |-> -1], \* 'starf;'
  [name |-> <<115,116,114,97,105,103,104,116,101,112,115,105,108,111,110,59>>, first |-> 1013, second |-> -1], \* 'straightepsilon;'
  [name |-> <<115,116,114,97,105,103,104,116,112,104,105,59>>, first |-> 981, second |-> -1], \* 'straightphi;'
  [name |-> <<115,116,114,110,115,59>>, first |-> 175, second |-> -1], \* 'strns;'
  [name |-> <<115,117,98,59>>, first |-> 8834, second |-> -1], \* 'sub;'
  [name |-> <<115,117,98,69,59>>, first |-> 10949, second |-> -1], \* 'subE;'
  [name |-> <<115,117,98,100,111,116,59>>, first |-> 10941, second |-> -1], \* 'subdot;'
  [name |-> <<115,117,98,101,59>>, first |-> 8838, second |-> -1], \* 'sube;'
  [name |-> <<115,117,98,101,100,111,116,59>>, first |-> 10947, second |-> -1], \* 'subedot;'
  [name |-> <<115,117,98,109,117,108,116,59>>, first |-> 10945, second |-> -1], \* 'submult;'
  [name |-> <<115,117,98,110,69,59>>, first |-> 10955, second |-> -1], \* 'subnE;'
  [name |-> <<115,117,98,110,101,59>>, first |-> 8842, second |-> -1], \* 'subne;'
  [name |-> <<115,117,98,112,108,117,115,59>>, first |-> 10943, second |-> -1], \* 'subplus;'
  [name |-> <<115,117,98,114,97,114,114,59>>, first |-> 10617, second |-> -1], \* 'subrarr;'
  [name |-> <<115,117,98,115,101,116,59>>, first |-> 8834, second |-> -1], \* 'subset;'
  [name |-> <<115,117,98,115,101,116,101,113,59>>, first |-> 8838, second |-> -1], \* 'subseteq;'
  [name |-> <<115,117,98,115,101,116,101,113,113,59>>, first |-> 10949, second |-> -1], \* 'subseteqq;'
  [name |-> <<115,117,98,115,101,116,110,101,113,59>>, first |-> 8842, second |-> -1], \* 'subsetneq;'
  [name |-> <<115,117,98,115,101,116,110,101,113,113,59>>, first |-> 10955, second |-> -1], \* 'subsetneqq;'
  [name |-> <<115,117,98,115,105,109,59>>, first |-> 10951, second |-> -1], \* 'subsim;'
  [name |-> <<115,117,98,115,117,98,59>>, first |-> 10965, second |-> -1], \* 'subsub;'
  [name |-> <<115,117,98,115,117,112,59>>, first |-> 10963, second |-> -1], \* 'subsup;'
  [name |-> <<115,117,99,99,59>>, first |-> 8827, second |-> -1], \* 'succ;'
  [name |-> <<115,117,99,99,97,112,112,114,111,120,59>>, first |-> 10936, second |-> -1], \* 'succapprox;'
  [name |-> <<115,117,99,99,99,117,114,108,121,101,113,59>>, first |-> 8829, second |-> -1], \* 'succcurlyeq;'
  [name |-> <<115,117,99,99,101,113,59>>, first |-> 10928, second |-> -1], \* 'succeq;'
  [name |-> <<115,117,99,99,110,97,112,112,114,111,120,59>>, first |-> 10938, second |-> -1], \* 'succnapprox;'
  [name |-> <<115,117,99,99,110,101,113,113,59>>, first |-> 10934, second |-> -1], \* 'succneqq;'
  [name |-> <<115,117,99,99,110,115,105,109,59>>, first |-> 8937, second |-> -1], \* 'succnsim;'
  [name |-> <<115,117,99,99,115,105,109,59>>, first |-> 8831, second |-> -1], \* 'succsim;'
  [name |-> <<115,117,109,59>>, first |-> 8721, second |-> -1], \* 'sum;'
  [name |-> <<115,117,110,103,59>>, first |-> 9834, second |-> -1], \* 'sung;'
  [name |-> <<115,117,112,49,59>>, first |-> 185, second |-> -1], \* 'sup1;'
  [name |-> <<115,117,112,49>>, first |-> 185, second |-> -1], \* 'sup1'
  [name |-> <<115,117,112,50,59>>, first |-> 178, second |-> -1], \* 'sup2;'
  [name |-> <<115,117,112,50>>, first |-> 178, second |-> -1], \* 'sup2'
  [name |-> <<115,117,112,51,59>>, first |-> 179, second |-> -1], \* 'sup3;'
  [name |-> <<115,117,112,51>>, first |-> 179, second |-> -1], \* 'sup3'
  [name |-> <<115,117,112,59>>, first |-> 8835, second |-> -1], \* 'sup;'
  [name |-> <<115,117,112,69,59>>, first |-> 10950, second |-> -1], \* 'supE;'
  [name |-> <<115,117,112,100,111,116,59>>, first |-> 10942, second |-> -1], \* 'supdot;'
  [name |-> <<115,117,112,100,115,117,98,59>>, first |-> 10968, second |-> -1], \* 'supdsub;'
  [name |-> <<115,117,112,101,59>>, first |-> 8839, second |-> -1], \* 'supe;'
  [name |-> <<115,117,112,101,100,111,116,59>>, first |-> 10948, second |-> -1], \* 'supedot;'
  [name |-> <<115,117,112,104,115,111,108,59>>, first |-> 10185, second |-> -1], \* 'suphsol;'
  [name |-> <<115,117,112,104,115,117,98,59>>, first |-> 10967, second |-> -1], \* 'suphsub;'
  [name |-> <<115,117,112,108,97,114,114,59>>, first |-> 10619, second |-> -1], \* 'suplarr;'
  [name |-> <<115,117,112,109,117,108,116,59>>, first |-> 10946, second |-> -1], \* 'supmult;'
  [name |-> <<115,117,112,110,69,59>>, first |-> 10956, second |-> -1], \* 'supnE;'
  [name |-> <<115,117,112,110,101,59>>, first |-> 8843, second |-> -1], \* 'supne;'
  [name |-> <<115,117,112,112,108,117,115,59>>, first |-> 10944, second |-> -1], \* 'supplus;'
  [name |-> <<115,117,112,115,101,116,59>>, first |-> 8835, second |-> -1], \* 'supset;'
  [name |-> <<115,117,112,115,101,116,101,113,59>>, first |-> 8839, second |-> -1], \* 'supseteq;'
  [name |-> <<115,117,112,115,101,116,101,113,113,59>>, first |-> 10950, second |-> -1], \* 'supseteqq;'
  [name |-> <<115,117,112,115,101,116,110,101,113,59>>, first |-> 8843, second |-> -1], \* 'supsetneq;'
  [name |-> <<115,117,112,115,101,116,110,101,113,113,59>>, first |-> 10956, second |-> -1], \* 'supsetneqq;'
  [name |-> <<115,117,112,115,105,109,59>>, first |-> 10952, second |-> -1], \* 'supsim;'
  [name |-> <<115,117,112,115,117,98,59>>, first |-> 10964, second |-> -1], \* 'supsub;'
  [name |-> <<115,117,112,115,117,112,59>>, first |-> 10966, second |-> -1], \* 'supsup;'
  [name |-> <<115,119,65,114,114,59>>, first |-> 8665, second |-> -1], \* 'swArr;'
  [name |-> <<115,119,97,114,104,107,59>>, first |-> 10534, second |-> -1], \* 'swarhk;'
  [name |-> <<115,119,97,114,114,59>>, first |-> 8601, second |-> -1], \* 'swarr;'
  [name |-> <<115,119,97,114,114,111,119,59>>, first |-> 8601, second |-> -1], \* 'swarrow;'
  [name |-> <<115,119,110,119,97,114,59>>, first |-> 10538, second |-> -1], \* 'swnwar;'
  [name |-> <<115,122,108,105,103,59>>, first |-> 223, second |-> -1], \* 'szlig;'
  [name |-> <<115,122,108,105,103>>, first |-> 223, second |-> -1], \* 'szlig'
  [name |-> <<116,97,114,103,101,116,59>>, first |-> 8982, second |-> -1], \* 'target;'
  [name |-> <<116,97,117,59>>, first |-> 964, second |-> -1], \* 'tau;'
  [name |-> <<116,98,114,107,59>>, first |-> 9140, second |-> -1], \* 'tbrk;'
  [name |-> <<116,99,97,114,111,110,59>>, first |-> 357, second |-> -1], \* 'tcaron;'
  [name |-> <<116,99,101,100,105,108,59>>, first |-> 355, second |-> -1], \* 'tcedil;'
  [name |-> <<116,99,121,59>>, first |-> 1090, second |-> -1], \* 'tcy;'
  [name |-> <<116,100,111,116,59>>, first |-> 8411, second |-> -1], \* 'tdot;'
  [name |-> <<116,101,108,114,101,99,59>>, first |-> 8981, second |-> -1], \* 'telrec;'
  [name |-> <<116,102,114,59>>, first |-> 120113, second |-> -1], \* 'tfr;'
  [name |-> <<116,104,101,114,101,52,59>>, first |-> 8756, second |-> -1], \* 'there4;'
  [name |-> <<116,104,101,114,101,102,111,114,101,59>>, first |-> 8756, second |-> -1], \* 'therefore;'
  [name |-> <<116,104,101,116,97,59>>, first |-> 952, second |-> -1], \* 'theta;'
  [name |-> <<116,104,101,116,97,115,121,109,59>>, first |-> 977, second |-> -1], \* 'thetasym;'
  [name |-> <<116,104,101,116,97,118,59>>, first |-> 977, second |-> -1], \* 'thetav;'
  [name |-> <<116,104,105,99,107,97,112,112,114,111,120,59>>, first |-> 8776, second |-> -1], \* 'thickapprox;'
  [name |-> <<116,104,105,99,107,115,105,109,59>>, first |-> 8764, second |-> -1], \* 'thicksim;'
  [name |-> <<116,104,105,110,115,112,59>>, first |-> 8201, second |-> -1], \* 'thinsp;'
  [name |-> <<116,104,107,97,112,59>>, first |-> 8776, second |-> -1], \* 'thkap;'
  [name |-> <<116,104,107,115,105,109,59>>, first |-> 8764, second |-> -1], \* 'thksim;'
  [name |-> <<116,104,111,114,110,59>>, first |-> 254, second |-> -1], \* 'thorn;'
  [name |-> <<116,104,111,114,110>>, first |-> 254, second |-> -1], \* 'thorn'
  [name |-> <<116,105,108,100,101,59>>, first |-> 732, second |-> -1], \* 'tilde;'
  [name |-> <<116,105,109,101,115,59>>, first |-> 215, second |-> -1], \* 'times;'
  [name |-> <<116,105,109,101,115>>, first |-> 215, second |-> -1], \* 'times'
  [name |-> <<116,105,109,101,115,98,59>>, first |-> 8864, second |-> -1], \* 'timesb;'
  [name |-> <<116,105,109,101,115,98,97,114,59>>, first |-> 10801, second |-> -1], \* 'timesbar;'
  [name |-> <<116,105,109,101,115,100,59>>, first |-> 10800, second |-> -1], \* 'timesd;'
  [name |-> <<116,105,110,116,59>>, first |-> 8749, second |-> -1], \* 'tint;'
  [name |-> <<116,111,101,97,59>>, first |-> 10536, second |-> -1], \* 'toea;'
  [name |-> <<116,111,112,59>>, first |-> 8868, second |-> -1], \* 'top;'
  [name |-> <<116,111,112,98,111,116,59>>, first |-> 9014, second |-> -1], \* 'topbot;'
  [name |-> <<116,111,112,99,105,114,59>>, first |-> 10993, second |-> -1], \* 'topcir;'
  [name |-> <<116,111,112,102,59>>, first |-> 120165, second |-> -1], \* 'topf;'
  [name |-> <<116,111,112,102,111,114,107,59>>, first |-> 10970, second |-> -1], \* 'topfork;'
  [name |-> <<116,111,115,97,59>>, first |-> 10537, second |-> -1], \* 'tosa;'
  [name |-> <<116,112,114,105,109,101,59>>, first |-> 8244, second |-> -1], \* 'tprime;'
  [name |-> <<116,114,97,100,101,59>>, first |-> 8482, second |-> -1], \* 'trade;'
  [name |-> <<116,114,105,97,110,103,108,101,59>>, first |-> 9653, second |-> -1], \* 'triangle;'
  [name |-> <<116,114,105,97,110,103,108,101,100,111,119,110,59>>, first |-> 9663, second |-> -1], \* 'triangledown;'
  [name |-> <<116,114,105,97,110,103,108,101,108,101,102,116,59>>, first |-> 9667, second |-> -1], \* 'triangleleft;'
  [name |-> <<116,114,105,97,110,103,108,101,108,101,102,116,101,113,59>>, first |-> 8884, second |-> -1], \* 'trianglelefteq;'
  [name |-> <<116,114,105,97,110,103,108,101,113,59>>, first |-> 8796, second |-> -1], \* 'triangleq;'
  [name |-> <<116,114,105,97,110,103,108,101,114,105,103,104,116,59>>, first |-> 9657, second |-> -1], \* 'triangleright;'
  [name |-> <<116,114,105,97,110,103,108,101,114,105,103,104,116,101,113,59>>, first |-> 8885, second |-> -1], \* 'trianglerighteq;'
  [name |-> <<116,114,105,100,111,116,59>>, first |-> 9708, second |-> -1], \* 'tridot;'
  [name |-> <<116,114,105,101,59>>, first |-> 8796, second |-> -1], \* 'trie;'
  [name |-> <<116,114,105,109,105,110,117,115,59>>, first |-> 10810, second |-> -1], \* 'triminus;'
  [name |-> <<116,114,105,112,108,117,115,59>>, first |-> 10809, second |-> -1], \* 'triplus;'
  [name |-> <<116,114,105,115,98,59>>, first |-> 10701, second |-> -1], \* 'trisb;'
  [name |-> <<116,114,105,116,105,109,101,59>>, first |-> 10811, second |-> -1], \* 'tritime;'
  [name |-> <<116,114,112,101,122,105,117,109,59>>, first |-> 9186, second |-> -1], \* 'trpezium;'
  [name |-> <<116,115,99,114,59>>, first |-> 120009, second |-> -1], \* 'tscr;'
  [name |-> <<116,115,99,121,59>>, first |-> 1094, second |-> -1], \* 'tscy;'
  [name |-> <<116,115,104,99,121,59>>, first |-> 1115, second |-> -1], \* 'tshcy;'
  [name |-> <<116,115,116,114,111,107,59>>, first |-> 359, second |-> -1], \* 'tstrok;'
  [name |-> <<116,119,105,120,116,59>>, first |-> 8812, second |-> -1], \* 'twixt;'
  [name |-> <<116,119,111,104,101,97,100,108,101,102,116,97,114,114,111,119,59>>, first |-> 8606, second |-> -1], \* 'twoheadleftarrow;'
  [name |-> <<116,119,111,104,101,97,100,114,105,103,104,116,97,114,114,111,119,59>>, first |-> 8608, second |-> -1], \* 'twoheadrightarrow;'
  [name |-> <<117,65,114,114,59>>, first |-> 8657, second |-> -1], \* 'uArr;'
  [name |-> <<117,72,97,114,59>>, first |-> 10595, second |-> -1], \* 'uHar;'
  [name |-> <<117,97,99,117,116,101,59>>, first |-> 250, second |-> -1], \* 'uacute;'
  [name |-> <<117,97,99,117,116,101>>, first |-> 250, second |-> -1], \* 'uacute'
  [name |-> <<117,97,114,114,59>>, first |-> 8593, second |-> -1], \* 'uarr;'
  [name |-> <<117,98,114,99,121,59>>, first |-> 1118, second |-> -1], \* 'ubrcy;'
  [name |-> <<117,98,114,101,118,101,59>>, first |-> 365, second |-> -1], \* 'ubreve;'
  [name |-> <<117,99,105,114,99,59>>, first |-> 251, second |-> -1], \* 'ucirc;'
  [name |-> <<117,99,105,114,99>>, first |-> 251, second |-> -1], \* 'ucirc'
  [name |-> <<117,99,121,59>>, first |-> 1091, second |-> -1], \* 'ucy;'
  [name |-> <<117,100,97,114,114,59>>, first |-> 8645, second |-> -1], \* 'udarr;'
  [name |-> <<117,100,98,108,97,99,59>>, first |-> 369, second |-> -1], \* 'udblac;'
  [name |-> <<117,100,104,97,114,59>>, first |-> 10606, second |-> -1], \* 'udhar;'
  [name |-> <<117,102,105,115,104,116,59>>, first |-> 10622, second |-> -1], \* 'ufisht;'
  [name |-> <<117,102,114,59>>, first |-> 120114, second |-> -1], \* 'ufr;'
  [name |-> <<117,103,114,97,118,101,59>>, first |-> 249, second |-> -1], \* 'ugrave;'
  [name |-> <<117,103,114,97,118,101>>, first |-> 249, second |-> -1], \* 'ugrave'
  [name |-> <<117,104,97,114,108,59>>, first |-> 8639, second |-> -1], \* 'uharl;'
  [name |-> <<117,104,97,114,114,59>>, first |-> 8638, second |-> -1], \* 'uharr;'
  [name |-> <<117,104,98,108,107,59>>, first |-> 9600, second |-> -1], \* 'uhblk;'
  [name |-> <<117,108,99,111,114,110,59>>, first |-> 8988, second |-> -1], \* 'ulcorn;'
  [name |-> <<117,108,99,111,114,110,101,114,59>>, first |-> 8988, second |-> -1], \* 'ulcorner;'
  [name |-> <<117,108,99,114,111,112,59>>, first |-> 8975, second |-> -1], \* 'ulcrop;'
  [name |-> <<117,108,116,114,105,59>>, first |-> 9720, second |-> -1], \* 'ultri;'
  [name |-> <<117,109,97,99,114,59>>, first |-> 363, second |-> -1], \* 'umacr;'
  [name |-> <<117,109,108,59>>, first |-> 168, second |-> -1], \* 'uml;'
  [name |-> <<117,109,108>>, first |-> 168, second |-> -1], \* 'uml'
  [name |-> <<117,111,103,111,110,59>>, first |-> 371, second |-> -1], \* 'uogon;'
  [name |-> <<117,111,112,102,59>>, first |-> 120166, second |-> -1], \* 'uopf;'
  [name |-> <<117,112,97,114,114,111,119,59>>, first |-> 8593, second |-> -1], \* 'uparrow;'
  [name |-> <<117,112,100,111,119,110,97,114,114,111,119,59>>, first |-> 8597, second |-> -1], \* 'updownarrow;'
  [name |-> <<117,112,104,97,114,112,111,111,110,108,101,102,116,59>>, first |-> 8639, second |-> -1], \* 'upharpoonleft;'
  [name |-> <<117,112,104,97,114,112,111,111,110,114,105,103,104,116,59>>, first |-> 8638, second |-> -1], \* 'upharpoonright;'
  [name |-> <<117,112,108,117,115,59>>, first |-> 8846, second |-> -1], \* 'uplus;'
  [name |-> <<117,112,115,105,59>>, first |-> 965, second |-> -1], \* 'upsi;'
  [name |-> <<117,112,115,105,104,59>>, first |-> 978, second |-> -1], \* 'upsih;'
  [name |-> <<117,112,115,105,108,111,110,59>>, first |-> 965, second |-> -1], \* 'upsilon;'
  [name |-> <<117,112,117,112,97,114,114,111,119,115,59>>, first |-> 8648, second |-> -1], \* 'upuparrows;'
  [name |-> <<117,114,99,111,114,110,59>>, first |-> 8989, second |-> -1], \* 'urcorn;'
  [name |-> <<117,114,99,111,114,110,101,114,59>>, first |-> 8989, second |-> -1], \* 'urcorner;'
  [name |-> <<117,114,99,114,111,112,59>>, first |-> 8974, second |-> -1], \* 'urcrop;'
  [name |-> <<117,114,105,110,103,59>>, first |-> 367, second |-> -1], \* 'uring;'
  [name |-> <<117,114,116,114,105,59>>, first |-> 9721, second |-> -1], \* 'urtri;'
  [name |-> <<117,115,99,114,59>>, first |-> 120010, second |-> -1], \* 'uscr;'
  [name |-> <<117,116,100,111,116,59>>, first |-> 8944, second |-> -1], \* 'utdot;'
  [name |-> <<117,116,105,108,100,101,59>>, first |-> 361, second |-> -1], \* 'utilde;'
  [name |-> <<117,116,114,105,59>>, first |-> 9653, second |-> -1], \* 'utri;'
  [name |-> <<117,116,114,105,102,59>>, first |-> 9652, second |-> -1], \* 'utrif;'
  [name |-> <<117,117,97,114,114,59>>, first |-> 8648, second |-> -1], \* 'uuarr;'
  [name |-> <<117,117,109,108,59>>, first |-> 252, second |-> -1], \* 'uuml;'
  [name |-> <<117,117,109,108>>, first |-> 252, second |-> -1], \* 'uuml'
  [name |-> <<117,119,97,110,103,108,101,59>>, first |-> 10663, second |-> -1], \* 'uwangle;'
  [name |-> <<118,65,114,114,59>>, first |-> 8661, second |-> -1], \* 'vArr;'
  [name |-> <<118,66,97,114,59>>, first |-> 10984, second |-> -1], \* 'vBar;'
  [name |-> <<118,66,97,114,118,59>>, first |-> 10985, second |-> -1], \* 'vBarv;'
  [name |-> <<118,68,97,115,104,59>>, first |-> 8872, second |-> -1], \* 'vDash;'
  [name |-> <<118,97,110,103,114,116,59>>, first |-> 10652, second |-> -1], \* 'vangrt;'
  [name |-> <<118,97,114,101,112,115,105,108,111,110,59>>, first |-> 1013, second |-> -1], \* 'varepsilon;'
  [name |-> <<118,97,114,107,97,112,112,97,59>>, first |-> 1008, second |-> -1], \* 'varkappa;'
  [name |-> <<118,97,114,110,111,116,104,105,110,103,59>>, first |-> 8709, second |-> -1], \* 'varnothing;'
  [name |-> <<118,97,114,112,104,105,59>>, first |-> 981, second |-> -1], \* 'varphi;'
  [name |-> <<118,97,114,112,105,59>>, first |-> 982, second |-> -1], \* 'varpi;'
  [name |-> <<118,97,114,112,114,111,112,116,111,59>>, first |-> 8733, second |-> -1], \* 'varpropto;'
  [name |-> <<118,97,114,114,59>>, first |-> 8597, second |-> -1], \* 'varr;'
  [name |-> <<118,97,114,114,104,111,59>>, first |-> 1009, second |-> -1], \* 'varrho;'
  [name |-> <<118,97,114,115,105,103,109,97,59>>, first |-> 962, second |-> -1], \* 'varsigma;'
  [name |-> <<118,97,114,115,117,98,115,101,116,110,101,113,59>>, first |-> 8842, second |-> 65024], \* 'varsubsetneq;'
  [name |-> <<118,97,114,115,117,98,115,101,116,110,101,113,113,59>>, first |-> 10955, second |-> 65024], \* 'varsubsetneqq;'
  [name |-> <<118,97,114,115,117,112,115,101,116,110,101,113,59>>, first |-> 8843, second |-> 65024], \* 'varsupsetneq;'
  [name |-> <<118,97,114,115,117,112,115,101,116,110,101,113,113,59>>, first |-> 10956, second |-> 65024], \* 'varsupsetneqq;'
  [name |-> <<118,97,114,116,104,101,116,97,59>>, first |-> 977, second |-> -1], \* 'vartheta;'
  [name |-> <<118,97,114,116,114,105,97,110,103,108,101,108,101,102,116,59>>, first |-> 8882, second |-> -1], \* 'vartriangleleft;'
  [name |-> <<118,97,114,116,114,105,97,110,103,108,101,114,105,103,104,116,59>>, first |-> 8883, second |-> -1], \* 'vartriangleright;'
  [name |-> <<118,99,121,59>>, first |-> 1074, second |-> -1], \* 'vcy;'
  [name |-> <<118,100,97,115,104,59>>, first |-> 8866, second |-> -1], \* 'vdash;'
  [name |-> <<118,101,101,59>>, first |-> 8744, second |-> -1], \* 'vee;'
  [name |-> <<118,101,101,98,97,114,59>>, first |-> 8891, second |-> -1], \* 'veebar;'
  [name |-> <<118,101,101,101,113,59>>, first |-> 8794, second |-> -1], \* 'veeeq;'
  [name |-> <<118,101,108,108,105,112,59>>, first |-> 8942, second |-> -1], \* 'vellip;'
  [name |-> <<118,101,114,98,97,114,59>>, first |-> 124, second |-> -1], \* 'verbar;'
  [name |-> <<118,101,114,116,59>>, first |-> 124, second |-> -1], \* 'vert;'
  [name |-> <<118,102,114,59>>, first |-> 120115, second |-> -1], \* 'vfr;'
  [name |-> <<118,108,116,114,105,59>>, first |-> 8882, second |-> -1], \* 'vltri;'
  [name |-> <<118,110,115,117,98,59>>, first |-> 8834, second |-> 8402], \* 'vnsub;'
  [name |-> <<118,110,115,117,112,59>>, first |-> 8835, second |-> 8402], \* 'vnsup;'
  [name |-> <<118,111,112,102,59>>, first |-> 120167, second |-> -1], \* 'vopf;'
  [name |-> <<118,112,114,111,112,59>>, first |-> 8733, second |-> -1], \* 'vprop;'
  [name |-> <<118,114,116,114,105,59>>, first |-> 8883, second |-> -1], \* 'vrtri;'
  [name |-> <<118,115,99,114,59>>, first |-> 120011, second |-> -1], \* 'vscr;'
  [name |-> <<118,115,117,98,110,69,59>>, first |-> 10955, second |-> 65024], \* 'vsubnE;'
  [name |-> <<118,115,117,98,110,101,59>>, first |-> 8842, second |-> 65024], \* 'vsubne;'
  [name |-> <<118,115,117,112,110,69,59>>, first |-> 10956, second |-> 65024], \* 'vsupnE;'
  [name |-> <<118,115,117,112,110,101,59>>, first |-> 8843, second |-> 65024], \* 'vsupne;'
  [name |-> <<118,122,105,103,122,97,103,59>>, first |-> 10650, second |-> -1], \* 'vzigzag;'
  [name |-> <<119,99,105,114,99,59>>, first |-> 373, second |-> -1], \* 'wcirc;'
  [name |-> <<119,101,100,98,97,114,59>>, first |-> 10847, second |-> -1], \* 'wedbar;'
  [name |-> <<119,101,100,103,101,59>>, first |-> 8743, second |-> -1], \* 'wedge;'
  [name |-> <<119,101,100,103,101,113,59>>, first |-> 8793, second |-> -1], \* 'wedgeq;'
  [name |-> <<119,101,105,101,114,112,59>>, first |-> 8472, second |-> -1], \* 'weierp;'
  [name |-> <<119,102,114,59>>, first |-> 120116, second |-> -1], \* 'wfr;'
  [name |-> <<119,111,112,102,59>>, first |-> 120168, second |-> -1], \* 'wopf;'
  [name |-> <<119,112,59>>, first |-> 8472, second |-> -1], \* 'wp;'
  [name |-> <<119,114,59>>, first |-> 8768, second |-> -1], \* 'wr;'
  [name |-> <<119,114,101,97,116,104,59>>, first |-> 8768, second |-> -1], \* 'wreath;'
  [name |-> <<119,115,99,114,59>>, first |-> 120012, second |-> -1], \* 'wscr;'
  [name |-> <<120,99,97,112,59>>, first |-> 8898, second |-> -1], \* 'xcap;'
  [name |-> <<120,99,105,114,99,59>>, first |-> 9711, second |-> -1], \* 'xcirc;'
  [name |-> <<120,99,117,112,59>>, first |-> 8899, second |-> -1], \* 'xcup;'
  [name |-> <<120,100,116,114,105,59>>, first |-> 9661, second |-> -1], \* 'xdtri;'
  [name |-> <<120,102,114,59>>, first |-> 120117, second |-> -1], \* 'xfr;'
  [name |-> <<120,104,65,114,114,59>>, first |-> 10234, second |-> -1], \* 'xhArr;'
  [name |-> <<120,104,97,114,114,59>>, first |-> 10231, second |-> -1], \* 'xharr;'
  [name |-> <<120,105,59>>, first |-> 958, second |-> -1], \* 'xi;'
  [name |-> <<120,108,65,114,114,59>>, first |-> 10232, second |-> -1], \* 'xlArr;'
  [name |-> <<120,108,97,114,114,59>>, first |-> 10229, second |-> -1], \* 'xlarr;'
  [name |-> <<120,109,97,112,59>>, first |-> 10236, second |-> -1], \* 'xmap;'
  [name |-> <<120,110,105,115,59>>, first |-> 8955, second |-> -1], \* 'xnis;'
  [name |-> <<120,111,100,111,116,59>>, first |-> 10752, second |-> -1], \* 'xodot;'
  [name |-> <<120,111,112,102,59>>, first |-> 120169, second |-> -1], \* 'xopf;'
  [name |-> <<120,111,112,108,117,115,59>>, first |-> 10753, second |-> -1], \* 'xoplus;'
  [name |-> <<120,111,116,105,109,101,59>>, first |-> 10754, second |-> -1], \* 'xotime;'
  [name |-> <<120,114,65,114,114,59>>, first |-> 10233, second |-> -1], \* 'xrArr;'
  [name |-> <<120,114,97,114,114,59>>, first |-> 10230, second |-> -1], \* 'xrarr;'
  [name |-> <<120,115,99,114,59>>, first |-> 120013, second |-> -1], \* 'xscr;'
  [name |-> <<120,115,113,99,117,112,59>>, first |-> 10758, second |-> -1], \* 'xsqcup;'
  [name |-> <<120,117,112,108,117,115,59>>, first |-> 10756, second |-> -1], \* 'xuplus;'
  [name |-> <<120,117,116,114,105,59>>, first |-> 9651, second |-> -1], \* 'xutri;'
  [name |-> <<120,118,101,101,59>>, first |-> 8897, second |-> -1], \* 'xvee;'
  [name |-> <<120,119,101,100,103,101,59>>, first |-> 8896, second |-> -1], \* 'xwedge;'
  [name |-> <<121,97,99,117,116,101,59>>, first |-> 253, second |-> -1], \* 'yacute;'
  [name |-> <<121,97,99,117,116,101>>, first |-> 253, second |-> -1], \* 'yacute'
  [name |-> <<121,97,99,121,59>>, first |-> 1103, second |-> -1], \* 'yacy;'
  [name |-> <<121,99,105,114,99,59>>, first |-> 375, second |-> -1], \* 'ycirc;'
  [name |-> <<121,99,121,59>>, first |-> 1099, second |-> -1], \* 'ycy;'
  [name |-> <<121,101,110,59>>, first |-> 165, second |-> -1], \* 'yen;'
  [name |-> <<121,101,110>>, first |-> 165, second |-> -1], \* 'yen'
  [name |-> <<121,102,114,59>>, first |-> 120118, second |-> -1], \* 'yfr;'
  [name |-> <<121,105,99,121,59>>, first |-> 1111, second |-> -1], \* 'yicy;'
  [name |-> <<121,111,112,102,59>>, first |-> 120170, second |-> -1], \* 'yopf;'
  [name |-> <<121,115,99,114,59>>, first |-> 120014, second |-> -1], \* 'yscr;'
  [name |-> <<121,117,99,121,59>>, first |-> 1102, second |-> -1], \* 'yucy;'
  [name |-> <<121,117,109,108,59>>, first |-> 255, second |-> -1], \* 'yuml;'
  [name |-> <<121,117,109,108>>, first |-> 255, second |-> -1], \* 'yuml'
  [name |-> <<122,97,99,117,116,101,59>>, first |-> 378, second |-> -1], \* 'zacute;'
  [name |-> <<122,99,97,114,111,110,59>>, first |-> 382, second |-> -1], \* 'zcaron;'
  [name |-> <<122,99,121,59>>, first |-> 1079, second |-> -1], \* 'zcy;'
  [name |-> <<122,100,111,116,59>>, first |-> 380, second |-> -1], \* 'zdot;'
  [name |-> <<122,101,101,116,114,102,59>>, first |-> 8488, second |-> -1], \* 'zeetrf;'
  [name |-> <<122,101,116,97,59>>, first |-> 950, second |-> -1], \* 'zeta;'
  [name |-> <<122,102,114,59>>, first |-> 120119, second |-> -1], \* 'zfr;'
  [name |-> <<122,104,99,121,59>>, first |-> 1078, second |-> -1], \* 'zhcy;'
  [name |-> <<122,105,103,114,97,114,114,59>>, first |-> 8669, second |-> -1], \* 'zigrarr;'
  [name |-> <<122,111,112,102,59>>, first |-> 120171, second |-> -1], \* 'zopf;'
  [name |-> <<122,115,99,114,59>>, first |-> 120015, second |-> -1], \* 'zscr;'
  [name |-> <<122,119,106,59>>, first |-> 8205, second |-> -1], \* 'zwj;'
  [name |-> <<122,119,110,106,59>>, first |-> 8204, second |-> -1] \* 'zwnj;'
  >>

\* For each byte b, the patterns of `tab` whose first byte is b: the
\* transitions out of the scanner's start state.
EntriesByFirst(tab) ==
  [b \in 0..255 |-> {i \in 1..Len(tab) : tab[i].name[1] = b}]

WithStartState(tab) == [entries |-> tab, by_first |-> EntriesByFirst(tab)]

\* The machine `char_ref`: the patterns and the start state's transitions.
char_ref == WithStartState(valid_named_ref)

SetMin(S) == CHOOSE x \in S : \A y \in S : x <= y

\* One token of the scanner.  From the start state at byte offset p the
\* machine follows the bytes of the input while some pattern is still a
\* candidate (`cands`, having matched k bytes), remembering in `act` the last
\* pattern that was matched completely (te = p + its length); it stops at the
\* end of the input or when no pattern can be continued.  The result is the
\* index of that last complete pattern, or 0 when there is none.
RECURSIVE scan_token(_, _, _, _, _)
scan_token(machine, p, k, cands, act) ==
  IF p + k >= end \/ cands = {} THEN act
  ELSE
    LET live == {i \in cands :
                   /\ Len(machine.entries[i].name) > k
                   /\ machine.entries[i].name[k + 1] = input[p + k + 1]}
        done == {i \in live : Len(machine.entries[i].name) = k + 1}
    IN IF live = {} THEN act
       ELSE scan_token(machine, p, k + 1, live,
                       IF done = {} THEN act ELSE SetMin(done))

\* `%% write exec` on a scanner |* ... *|: after a token's action the machine
\* is back in its start state with p = te and goes on with the next token (no
\* action leaves the loop); it stops in the error state, or at the end of the
\* input, with te and *output as the last action left them.
RECURSIVE char_ref_exec(_, _, _, _), char_ref_action(_, _, _, _, _)

\* The action of the token that matched pattern `act` at p (0: no token).
char_ref_action(machine, p, te, output, act) ==
  IF act = 0 THEN [te |-> te, output |-> output]
  ELSE char_ref_exec(machine,
                     p + Len(machine.entries[act].name),
                     p + Len(machine.entries[act].name),
                     [first |-> machine.entries[act].first,
                      second |-> IF machine.entries[act].second # kGumboNoChar
                                   THEN machine.entries[act].second
                                   ELSE output.second])

char_ref_exec(machine, p, te, output) ==
  char_ref_action(machine, p, te, output,
                  IF p < end
                    THEN scan_token(machine, p, 0,
                                    machine.by_first[input[p + 1]], 0)
                    ELSE 0)

---------------------------------------------------------------------------
(* The character-reference resolver.                                       *)

NoOutput == [first |-> kGumboNoChar, second |-> kGumboNoChar]

kCharReplacements ==
  << <<0, 65533>>, <<13, 13>>, <<128, 8364>>, <<129, 129>>, <<130, 8218>>,
     <<131, 402>>, <<132, 8222>>, <<133, 8230>>, <<134, 8224>>, <<135, 8225>>,
     <<136, 710>>, <<137, 8240>>, <<138, 352>>, <<139, 8249>>, <<140, 338>>,
     <<141, 141>>, <<142, 381>>, <<143, 143>>, <<144, 144>>, <<145, 8216>>,
     <<146, 8217>>, <<147, 8220>>, <<148, 8221>>, <<149, 8226>>, <<150, 8211>>,
     <<151, 8212>>, <<152, 732>>, <<153, 8482>>, <<154, 353>>, <<155, 8250>>,
     <<156, 339>>, <<157, 157>>, <<158, 382>>, <<159, 376>> >>

IsDigit(c) == c >= 48 /\ c <= 57
IsUpper(c) == c >= 65 /\ c <= 90
IsLower(c) == c >= 97 /\ c <= 122

\* isalnum() in the C locale.
isalnum(c) == IsDigit(c) \/ IsUpper(c) \/ IsLower(c)

parse_digit(c, allow_hex) ==
  IF IsDigit(c) THEN c - 48
  ELSE IF allow_hex /\ c >= 97 /\ c <= 102 THEN c - 97 + 10
  ELSE IF allow_hex /\ c >= 65 /\ c <= 70 THEN c - 65 + 10
  ELSE -1

add_no_digit_error(m) ==
  fill_error_at_mark(m, "NUMERIC_CHAR_REF_NO_DIGITS", 0, NoText)

add_codepoint_error(m, type, codepoint) ==
  fill_error_at_mark(m, type, codepoint, NoText)

add_named_reference_error(m, type, text) ==
  fill_error_at_mark(m, type, 0, text)

\* A faulty variant of maybe_replace_codepoint: the loop stops one entry
\* before the terminator.
maybe_replace_codepoint_short(codepoint) ==
  LET hits == {i \in 1..(Len(kCharReplacements) - 1) :
                 kCharReplacements[i][1] = codepoint}
  IN IF hits = {} THEN -1 ELSE kCharReplacements[SetMin(hits)][2]

maybe_replace_codepoint(codepoint) ==
  LET hits == {i \in 1..Len(kCharReplacements) :
                 kCharReplacements[i][1] = codepoint}
  IN IF hits = {} THEN -1 ELSE kCharReplacements[SetMin(hits)][2]

\* Signed 32-bit arithmetic.  codepoint * base + digit on an int overflows
\* for long digit strings; that is undefined behaviour, and the builds differ:
\* "wrap" keeps the low 32 bits (two's complement), "trap" aborts (-ftrapv).
Builds == {"wrap", "trap"}

\* codepoint * base + digit does not fit an int (base > 0, 0 <= digit < base).
MulAddOverflows(codepoint, base, digit) ==
  \/ codepoint > (INT_MAX - digit) \div base
  \/ codepoint < -(((INT_MAX - base + 1 + digit) \div base) + 1)

\* The low 32 bits of codepoint * base + digit as an int, computed on the
\* 16-bit halves of codepoint.
MulAddWrap(codepoint, base, digit) ==
  LET hi == codepoint \div 65536
      lo == codepoint % 65536
      t == lo * base + digit
      lo2 == t % 65536
      hi2 == (hi * base + (t \div 65536)) % 65536
  IN (IF hi2 >= 32768 THEN hi2 - 65536 ELSE hi2) * 65536 + lo2

RECURSIVE numeric_loop(_, _, _, _, _), numeric_loop_next(_, _, _, _)

\* The rest of an iteration of the do-while loop of consume_numeric_ref once
\* codepoint has its new value: advance, parse the next digit, test it.
numeric_loop_next(m1, codepoint, is_hex, build) ==
  IF parse_digit(utf8iterator_current(m1), is_hex) # -1
    THEN numeric_loop(m1, codepoint,
                      parse_digit(utf8iterator_current(m1), is_hex),
                      is_hex, build)
    ELSE [m |-> m1, codepoint |-> codepoint, trapped |-> FALSE]

\* The do-while loop of consume_numeric_ref.
numeric_loop(m, codepoint, digit, is_hex, build) ==
  IF MulAddOverflows(codepoint, IF is_hex THEN 16 ELSE 10, digit)
     /\ build = "trap"
    THEN [m |-> m, codepoint |-> codepoint, trapped |-> TRUE]
    ELSE numeric_loop_next(
           utf8iterator_next(m),
           MulAddWrap(codepoint, IF is_hex THEN 16 ELSE 10, digit),
           is_hex, build)

\* consume_numeric_ref after its loop and the test for `;`: m3 is the
\* iterator then, status what the `;` test left.
numeric_ref_result(m3, codepoint, status) ==
  IF maybe_replace_codepoint(codepoint) # -1
    THEN [m |-> add_codepoint_error(m3, "NUMERIC_CHAR_REF_INVALID", codepoint),
          output |-> [NoOutput EXCEPT
                        !.first = maybe_replace_codepoint(codepoint)],
          status |-> FALSE, trapped |-> FALSE]
  ELSE IF (codepoint >= 55296 /\ codepoint <= 57343) \/ codepoint > 1114111
    THEN [m |-> add_codepoint_error(m3, "NUMERIC_CHAR_REF_INVALID", codepoint),
          output |-> [NoOutput EXCEPT !.first = kUtf8ReplacementChar],
          status |-> FALSE, trapped |-> FALSE]
  ELSE IF utf8_is_invalid_code_point(codepoint) \/ codepoint = 11
    THEN [m |-> add_codepoint_error(m3, "NUMERIC_CHAR_REF_INVALID", codepoint),
          output |-> [NoOutput EXCEPT !.first = codepoint],
          status |-> FALSE, trapped |-> FALSE]
  ELSE [m |-> m3, output |-> [NoOutput EXCEPT !.first = codepoint],
        status |-> status, trapped |-> FALSE]

\* consume_numeric_ref after its loop: r is what the loop left.
numeric_ref_digits_done(r) ==
  IF r.trapped
    THEN [m |-> r.m, output |-> NoOutput, status |-> FALSE, trapped |-> TRUE]
  ELSE IF utf8iterator_current(r.m) # CH_SEMI
    THEN numeric_ref_result(
           add_codepoint_error(r.m, "NUMERIC_CHAR_REF_WITHOUT_SEMICOLON",
                               r.codepoint),
           r.codepoint, FALSE)
    ELSE numeric_ref_result(utf8iterator_next(r.m), r.codepoint, TRUE)

\* consume_numeric_ref from the first digit on: m2 is the iterator after
\* `#` and the optional x.
numeric_ref_digits(m2, is_hex, build) ==
  IF parse_digit(utf8iterator_current(m2), is_hex) = -1
    THEN [m |-> utf8iterator_reset(add_no_digit_error(m2)),
          output |-> NoOutput, status |-> FALSE, trapped |-> FALSE]
    ELSE numeric_ref_digits_done(
           numeric_loop(m2, 0, parse_digit(utf8iterator_current(m2), is_hex),
                        is_hex, build))

\* consume_numeric_ref after its first utf8iterator_next.
numeric_ref_prefix(m1, build) ==
  IF utf8iterator_current(m1) = 120 \/ utf8iterator_current(m1) = 88
    THEN numeric_ref_digits(utf8iterator_next(m1), TRUE, build)
    ELSE numeric_ref_digits(m1, FALSE, build)

consume_numeric_ref(m, build) ==
  numeric_ref_prefix(utf8iterator_next(m), build)

is_legal_attribute_char_next(m) ==
  LET c == utf8iterator_current(m) IN c = CH_EQ \/ isalnum(c)

\* The while loop of maybe_add_invalid_named_reference.
RECURSIVE skip_alnum(_)
skip_alnum(m) ==
  IF isalnum(utf8iterator_current(m))
    THEN skip_alnum(utf8iterator_next(m))
    ELSE m

\* maybe_add_invalid_named_reference after its loop: start is where the name
\* began, m1 the iterator after the letters and digits, status what is
\* returned when a `;` follows.
invalid_named_reference(start, m1, status) ==
  IF utf8iterator_current(m1) = CH_SEMI
    THEN [m |-> add_named_reference_error(
                  m1, "NAMED_CHAR_REF_INVALID",
                  [data |-> start,
                   length |-> utf8iterator_get_char_pointer(m1) - start]),
          status |-> status]
    ELSE [m |-> m1, status |-> TRUE]

\* A faulty variant of maybe_add_invalid_named_reference: the diagnostic is
\* recorded but the function still reports success.
maybe_add_invalid_named_reference_ok(m) ==
  invalid_named_reference(utf8iterator_get_char_pointer(m), skip_alnum(m),
                          TRUE)

maybe_add_invalid_named_reference(m) ==
  invalid_named_reference(utf8iterator_get_char_pointer(m), skip_alnum(m),
                          FALSE)

\* consume_named_ref when the scanner matched: len bytes at start, the last
\* of them last_char.
named_ref_matched(m, is_in_attribute, start, len, last_char, output) ==
  IF last_char = CH_SEMI
    THEN [m |-> utf8iterator_maybe_consume_match(
                  m, SubSeq(input, start + 1, start + len), len).m,
          output |-> output, status |-> TRUE]
  ELSE IF is_in_attribute /\ is_legal_attribute_char_next(m)
    THEN [m |-> utf8iterator_reset(m), output |-> NoOutput, status |-> TRUE]
  ELSE [m |-> utf8iterator_maybe_consume_match(
                add_named_reference_error(
                  m, "NAMED_CHAR_REF_WITHOUT_SEMICOLON",
                  [data |-> start, length |-> len]),
                SubSeq(input, start + 1, start + len), len).m,
        output |-> output, status |-> FALSE]

\* consume_named_ref when the scanner matched nothing: r2 is what
\* maybe_add_invalid_named_reference did and returned.
named_ref_unmatched(r2) ==
  [m |-> utf8iterator_reset(r2.m), output |-> NoOutput, status |-> r2.status]

\* consume_named_ref after `%% write exec`: r holds te and *output.
named_ref_scanned(m, is_in_attribute, start, r) ==
  IF r.output.first # kGumboNoChar
    THEN named_ref_matched(m, is_in_attribute, start, r.te - start,
                           input[r.te], r.output)
    ELSE named_ref_unmatched(maybe_add_invalid_named_reference(m))

consume_named_ref(m, is_in_attribute) ==
  named_ref_scanned(
    m, is_in_attribute, utf8iterator_get_char_pointer(m),
    char_ref_exec(char_ref, utf8iterator_get_char_pointer(m), 0, NoOutput))

\* consume_char_ref after utf8iterator_mark and utf8iterator_next.
char_ref_after_ampersand(m1, additional_allowed_char, is_in_attribute, build) ==
  IF utf8iterator_current(m1) = additional_allowed_char
    THEN [m |-> utf8iterator_reset(m1), output |-> NoOutput,
          status |-> TRUE, trapped |-> FALSE]
  ELSE IF utf8iterator_current(m1)
            \in {CH_TAB, CH_LF, CH_FF, CH_SPACE, CH_LT, CH_AMP, EofChar}
    THEN [m |-> utf8iterator_reset(m1), output |-> NoOutput,
          status |-> TRUE, trapped |-> FALSE]
  ELSE IF utf8iterator_current(m1) = CH_HASH
    THEN consume_numeric_ref(m1, build)
  ELSE [trapped |-> FALSE] @@ consume_named_ref(m1, is_in_attribute)

consume_char_ref(m, additional_allowed_char, is_in_attribute, build) ==
  char_ref_after_ampersand(utf8iterator_next(utf8iterator_mark(m)),
                           additional_allowed_char, is_in_attribute, build)

---------------------------------------------------------------------------
(* The cursor and the resolver as a state machine.                         *)

\* Bounds of the model.
MaxLen == 3          \* bytes of an input drawn from InputBytes
MaxCap == 2          \* largest max_errors option tried (-1 .. MaxCap)
MaxPieces == 2       \* pieces after `&` in an input of NamedInputs
MaxDigitPieces == 3  \* digit groups in an input of NumericInputs
MaxNodes == 4        \* nodes of the tree besides the document

Range(f) == {f[i] : i \in DOMAIN f}

RECURSIVE Flatten(_)
Flatten(ss) == IF ss = << >> THEN << >> ELSE Head(ss) \o Flatten(Tail(ss))

SeqsUpTo(S, n) == UNION {[1..k -> S] : k \in 0..n}

\* Spec: every byte string of at most MaxLen bytes over `&`, `a`, `;`, `#`,
\* a lone continuation byte (0x80), a two-byte lead (0xC3) and CR.
InputBytes == {CH_AMP, 97, CH_SEMI, CH_HASH, 128, 195, CH_CR}

Inputs == SeqsUpTo(InputBytes, MaxLen)

\* SpecNamed: a lead, `&`, and at most MaxPieces of these pieces:
\* not  in;  it;  amp  lt;  bne;  ;  =  space  zq  U+0001
Pieces ==
  << <<110,111,116>>, <<105,110,59>>, <<105,116,59>>, <<97,109,112>>,
     <<108,116,59>>, <<98,110,101,59>>, <<59>>, <<61>>, <<32>>,
     <<122,113>>, <<1>> >>

\* nothing, or "A\nB" (so that the `&` is at line 2, column 2, offset 3)
Leads == { << >>, <<65, 10, 66>> }

NamedInputs ==
  {lead \o <<CH_AMP>> \o Flatten([i \in DOMAIN ps |-> Pieces[ps[i]]]) :
     lead \in Leads, ps \in SeqsUpTo(1..Len(Pieces), MaxPieces)}

\* SpecLegacy: `&N;` for every pattern N of the scanner that has no `;`.
EndsWithout(name, byte) == name[Len(name)] # byte

LegacyNames ==
  {e.name : e \in {x \in Range(valid_named_ref) : EndsWithout(x.name, CH_SEMI)}}

LegacyInputs == {<<CH_AMP>> \o n \o <<CH_SEMI>> : n \in LegacyNames}

\* SpecNumeric: `&#`, an optional x or X, at most MaxDigitPieces of the digit
\* groups 1  00  41  D8  8000  FFFF, and a tail: `;`, nothing, or `z`.
DigitPieces ==
  << <<49>>, <<48,48>>, <<52,49>>, <<68,56>>, <<56,48,48,48>>,
     <<70,70,70,70>> >>

NumericInputs ==
  {<<CH_AMP, CH_HASH>> \o x \o Flatten([i \in DOMAIN ds |-> DigitPieces[ds[i]]])
     \o tail :
     x \in { << >>, <<120>>, <<88>> },
     ds \in SeqsUpTo(1..Len(DigitPieces), MaxDigitPieces),
     tail \in { <<CH_SEMI>>, << >>, <<122>> }}

\* kGumboDefaultOptions.tab_stop
DefaultTabStop == 8

\* additional_allowed_char as the tokenizer passes it: a space in the data
\* state, a quote in a quoted attribute value.
AllowedChars == {CH_SPACE, 34}

NoNode == -1
NoSlice == [data |-> -1, length |-> 0]

Machine ==
  [it |-> iter, errs |-> errors, raised |-> raised,
   max_errors |-> options.max_errors]

SetMachine(m) ==
  /\ iter' = m.it
  /\ errors' = m.errs
  /\ raised' = m.raised

\* What the last cursor operation was and what it returned; `pre` is the
\* iterator and pre_errs the length of the errors vector before it.
Returned(op, attr, allowed, output, status) ==
  [op |-> op, is_in_attribute |-> attr, additional_allowed_char |-> allowed,
   first |-> output.first, second |-> output.second, status |-> status,
   pre |-> iter, pre_errs |-> Len(errors)]

\* The iterator right after utf8iterator_init; nothing was returned yet.
InitMachine(m) ==
  /\ iter = m.it
  /\ marked = [made |-> FALSE, it |-> m.it]
  /\ errors = m.errs
  /\ raised = m.raised
  /\ ret = [op |-> "init", is_in_attribute |-> FALSE,
            additional_allowed_char |-> kGumboNoChar,
            first |-> kGumboNoChar, second |-> kGumboNoChar,
            status |-> TRUE, pre |-> m.it, pre_errs |-> 0]

InitCursor(inputs, caps) ==
  /\ input \in inputs
  /\ options \in [max_errors : caps, tab_stop : {DefaultTabStop}]
  /\ InitMachine(utf8iterator_init)
  /\ token_start = 0
  /\ node_text = NoSlice

---------------------------------------------------------------------------
(* Tag names (tag.c): the table of normalized names, indexed by GumboTag,  *)
(* and the lookup from a name to its tag through the perfect hash.  A      *)
(* name is the sequence of its bytes; kGumboTagNames[t + 1] is the name of *)
(* tag t.                                                                  *)

kGumboTagNames ==
  <<
     <<104, 116, 109, 108>>,  \* 0 html
     <<104, 101, 97, 100>>,  \* 1 head
     <<116, 105, 116, 108, 101>>,  \* 2 title
     <<98, 97, 115, 101>>,  \* 3 base
     <<108, 105, 110, 107>>,  \* 4 link
     <<109, 101, 116, 97>>,  \* 5 meta
     <<115, 116, 121, 108, 101>>,  \* 6 style
     <<115, 99, 114, 105, 112, 116>>,  \* 7 script
     <<110, 111, 115, 99, 114, 105, 112, 116>>,  \* 8 noscript
     <<116, 101, 109, 112, 108, 97, 116, 101>>,  \* 9 template
     <<98, 111, 100, 121>>,  \* 10 body
     <<97, 114, 116, 105, 99, 108, 101>>,  \* 11 article
     <<115, 101, 99, 116, 105, 111, 110>>,  \* 12 section
     <<110, 97, 118>>,  \* 13 nav
     <<97, 115, 105, 100, 101>>,  \* 14 aside
     <<104, 49>>,  \* 15 h1
     <<104, 50>>,  \* 16 h2
     <<104, 51>>,  \* 17 h3
     <<104, 52>>,  \* 18 h4
     <<104, 53>>,  \* 19 h5
     <<104, 54>>,  \* 20 h6
     <<104, 103, 114, 111, 117, 112>>,  \* 21 hgroup
     <<104, 101, 97, 100, 101, 114>>,  \* 22 header
     <<102, 111, 111, 116, 101, 114>>,  \* 23 footer
     <<97, 100, 100, 114, 101, 115, 115>>,  \* 24 address
     <<112>>,  \* 25 p
     <<104, 114>>,  \* 26 hr
     <<112, 114, 101>>,  \* 27 pre
     <<98, 108, 111, 99, 107, 113, 117, 111, 116, 101>>,  \* 28 blockquote
     <<111, 108>>,  \* 29 ol
     <<117, 108>>,  \* 30 ul
     <<108, 105>>,  \* 31 li
     <<100, 108>>,  \* 32 dl
     <<100, 116>>,  \* 33 dt
     <<100, 100>>,  \* 34 dd
     <<102, 105, 103, 117, 114, 101>>,  \* 35 figure
     <<102, 105, 103, 99, 97, 112, 116, 105, 111, 110>>,  \* 36 figcaption
     <<109, 97, 105, 110>>,  \* 37 main
     <<100, 105, 118>>,  \* 38 div
     <<97>>,  \* 39 a
     <<101, 109>>,  \* 40 em
     <<115, 116, 114, 111, 110, 103>>,  \* 41 strong
     <<115, 109, 97, 108, 108>>,  \* 42 small
     <<115>>,  \* 43 s
     <<99, 105, 116, 101>>,  \* 44 cite
     <<113>>,  \* 45 q
     <<100, 102, 110>>,  \* 46 dfn
     <<97, 98, 98, 114>>,  \* 47 abbr
     <<100, 97, 116, 97>>,  \* 48 data
     <<116, 105, 109, 101>>,  \* 49 time
     <<99, 111, 100, 101>>,  \* 50 code
     <<118, 97, 114>>,  \* 51 var
     <<115, 97, 109, 112>>,  \* 52 samp
     <<107, 98, 100>>,  \* 53 kbd
     <<115, 117, 98>>,  \* 54 sub
     <<115, 117, 112>>,  \* 55 sup
     <<105>>,  \* 56 i
     <<98>>,  \* 57 b
     <<117>>,  \* 58 u
     <<109, 97, 114, 107>>,  \* 59 mark
     <<114, 117, 98, 121>>,  \* 60 ruby
     <<114, 116>>,  \* 61 rt
     <<114, 112>>,  \* 62 rp
     <<98, 100, 105>>,  \* 63 bdi
     <<98, 100, 111>>,  \* 64 bdo
     <<115, 112, 97, 110>>,  \* 65 span
     <<98, 114>>,  \* 66 br
     <<119, 98, 114>>,  \* 67 wbr
     <<105, 110, 115>>,  \* 68 ins
     <<100, 101, 108>>,  \* 69 del
     <<105, 109, 97, 103, 101>>,  \* 70 image
     <<105, 109, 103>>,  \* 71 img
     <<105, 102, 114, 97, 109, 101>>,  \* 72 iframe
     <<101, 109, 98, 101, 100>>,  \* 73 embed
     <<111, 98, 106, 101, 99, 116>>,  \* 74 object
     <<112, 97, 114, 97, 109>>,  \* 75 param
     <<118, 105, 100, 101, 111>>,  \* 76 video
     <<97, 117, 100, 105, 111>>,  \* 77 audio
     <<115, 111, 117, 114, 99, 101>>,  \* 78 source
     <<116, 114, 97, 99, 107>>,  \* 79 track
     <<99, 97, 110, 118, 97, 115>>,  \* 80 canvas
     <<109, 97, 112>>,  \* 81 map
     <<97, 114, 101, 97>>,  \* 82 area
     <<109, 97, 116, 104>>,  \* 83 math
     <<109, 105>>,  \* 84 mi
     <<109, 111>>,  \* 85 mo
     <<109, 110>>,  \* 86 mn
     <<109, 115>>,  \* 87 ms
     <<109, 116, 101, 120, 116>>,  \* 88 mtext
     <<109, 103, 108, 121, 112, 104>>,  \* 89 mglyph
     <<109, 97, 108, 105, 103, 110, 109, 97, 114, 107>>,  \* 90 malignmark
     <<97, 110, 110, 111, 116, 97, 116, 105, 111, 110, 45, 120, 109, 108>>,  \* 91 annotation-xml
     <<115, 118, 103>>,  \* 92 svg
     <<102, 111, 114, 101, 105, 103, 110, 111, 98, 106, 101, 99, 116>>,  \* 93 foreignobject
     <<100, 101, 115, 99>>,  \* 94 desc
     <<116, 97, 98, 108, 101>>,  \* 95 table
     <<99, 97, 112, 116, 105, 111, 110>>,  \* 96 caption
     <<99, 111, 108, 103, 114, 111, 117, 112>>,  \* 97 colgroup
     <<99, 111, 108>>,  \* 98 col
     <<116, 98, 111, 100, 121>>,  \* 99 tbody
     <<116, 104, 101, 97, 100>>,  \* 100 thead
     <<116, 102, 111, 111, 116>>,  \* 101 tfoot
     <<116, 114>>,  \* 102 tr
     <<116, 100>>,  \* 103 td
     <<116, 104>>,  \* 104 th
     <<102, 111, 114, 109>>,  \* 105 form
     <<102, 105, 101, 108, 100, 115, 101, 116>>,  \* 106 fieldset
     <<108, 101, 103, 101, 110, 100>>,  \* 107 legend
     <<108, 97, 98, 101, 108>>,  \* 108 label
     <<105, 110, 112, 117, 116>>,  \* 109 input
     <<98, 117, 116, 116, 111, 110>>,  \* 110 button
     <<115, 101, 108, 101, 99, 116>>,  \* 111 select
     <<100, 97, 116, 97, 108, 105, 115, 116>>,  \* 112 datalist
     <<111, 112, 116, 103, 114, 111, 117, 112>>,  \* 113 optgroup
     <<111, 112, 116, 105, 111, 110>>,  \* 114 option
     <<116, 101, 120, 116, 97, 114, 101, 97>>,  \* 115 textarea
     <<107, 101, 121, 103, 101, 110>>,  \* 116 keygen
     <<111, 117, 116, 112, 117, 116>>,  \* 117 output
     <<112, 114, 111, 103, 114, 101, 115, 115>>,  \* 118 progress
     <<109, 101, 116, 101, 114>>,  \* 119 meter
     <<100, 101, 116, 97, 105, 108, 115>>,  \* 120 details
     <<115, 117, 109, 109, 97, 114, 121>>,  \* 121 summary
     <<109, 101, 110, 117>>,  \* 122 menu
     <<109, 101, 110, 117, 105, 116, 101, 109>>,  \* 123 menuitem
     <<97, 112, 112, 108, 101, 116>>,  \* 124 applet
     <<97, 99, 114, 111, 110, 121, 109>>,  \* 125 acronym
     <<98, 103, 115, 111, 117, 110, 100>>,  \* 126 bgsound
     <<100, 105, 114>>,  \* 127 dir
     <<102, 114, 97, 109, 101>>,  \* 128 frame
     <<102, 114, 97, 109, 101, 115, 101, 116>>,  \* 129 frameset
     <<110, 111, 102, 114, 97, 109, 101, 115>>,  \* 130 noframes
     <<105, 115, 105, 110, 100, 101, 120>>,  \* 131 isindex
     <<108, 105, 115, 116, 105, 110, 103>>,  \* 132 listing
     <<120, 109, 112>>,  \* 133 xmp
     <<110, 101, 120, 116, 105, 100>>,  \* 134 nextid
     <<110, 111, 101, 109, 98, 101, 100>>,  \* 135 noembed
     <<112, 108, 97, 105, 110, 116, 101, 120, 116>>,  \* 136 plaintext
     <<114, 98>>,  \* 137 rb
     <<115, 116, 114, 105, 107, 101>>,  \* 138 strike
     <<98, 97, 115, 101, 102, 111, 110, 116>>,  \* 139 basefont
     <<98, 105, 103>>,  \* 140 big
     <<98, 108, 105, 110, 107>>,  \* 141 blink
     <<99, 101, 110, 116, 101, 114>>,  \* 142 center
     <<102, 111, 110, 116>>,  \* 143 font
     <<109, 97, 114, 113, 117, 101, 101>>,  \* 144 marquee
     <<109, 117, 108, 116, 105, 99, 111, 108>>,  \* 145 multicol
     <<110, 111, 98, 114>>,  \* 146 nobr
     <<115, 112, 97, 99, 101, 114>>,  \* 147 spacer
     <<116, 116>>,  \* 148 tt
     <<>>,  \* 149 ""
     <<114, 116, 99>>,  \* 150 rtc
     <<>>  \* 151 ""
  >>

\* The entries of the table marked TAG_UNKNOWN and TAG_LAST.
GUMBO_TAG_UNKNOWN == 149

GUMBO_TAG_LAST == 151

\* The tables g, T0 and T1 of hash_tag, indexed from 0 in the code.
g ==
  << 87, -1, -1, 54, 37, -1, 0, 63, -1, 4, 87, 132,
     149, -1, 43, 103, 78, 89, 126, 74, 9, -1, 32, 68,
     46, 132, 14, -1, -1, 147, 77, 120, 101, 138, 38, -1,
     135, 24, 94, -1, 36, 88, 101, 29, -1, 83, 122, -1,
     126, 148, 145, 46, 90, 94, 83, 140, -1, 4, -1, 103,
     25, 0, 0, 129, 138, 0, 138, 53, -1, 0, 77, 43,
     0, -1, 90, 22, 30, 109, 71, 1, -1, 94, 20, -1,
     27, 56, 0, 21, 72, 122, -1, -1, 0, 142, 72, 5,
     11, 7, 43, 111, 89, 96, 81, 48, 65, 27, 5, 73,
     -1, 57, 137, 52, 0, 60, -1, 3, -1, 100, 149, 41,
     98, 118, 81, 0, 50, 30, -1, -1, 83, 10, 20, 25,
     2, 0, 118, 9, 39, 94, 35, 42, 23, 75, 89, 31,
     0, 148, 86, 6, 115, -1, 49, 107, 5, 90, 4, 12,
     -1, 21, 16, -1, 29, 39, -1, 96, 111, 96, 43, 43,
     120, -1, 46, 84, -1, 0, 146, 126, 24, -1, 28, 110,
     82, 42, 12, 84, -1, -1, -1, 0, 33, 12, 86, 93,
     -1, 147, 95, 58, 90, 145, -1, -1 >>

T0 ==
  << 196, 103, 27, 185, 60, 0, 58, 36, 180, 118, 101, 180,
     61, 125, 144, 167, 140, 104, 131, 195, 176, 62, 79, 175,
     195, 103, 116, 194, 122, 73, 44, 119, 128, 23, 56, 188,
     23, 114, 24, 156, 32, 78, 136, 46, 3, 32, 165, 95,
     136, 97, 90, 65, 111, 121, 40, 106, 25, 108, 53, 99,
     181, 49, 18, 110, 72, 74, 50, 48, 141, 27, 4, 125,
     105, 92, 171, 60, 124, 1, 72, 96, 178, 59, 58, 61,
     0, 185, 12, 176, 111, 121, 49, 170, 70, 48, 43, 82,
     178, 157, 34, 62, 137, 148, 110, 160, 96, 11, 50, 22,
     12, 74, 71, 143, 133, 129, 4, 86, 67, 168, 62, 130,
     41, 63, 101, 63, 112, 96, 146, 90, 5, 132, 153, 95,
     32, 15, 7, 80, 26, 57, 103, 191, 83, 126, 134, 169,
     55, 90, 55, 74, 58, 69, 5, 99, 132, 58 >>

T1 ==
  << 87, 14, 91, 162, 194, 198, 131, 1, 89, 2, 154, 17,
     98, 25, 7, 121, 145, 178, 28, 70, 94, 135, 77, 129,
     134, 137, 69, 128, 88, 126, 114, 175, 92, 5, 89, 87,
     3, 20, 88, 44, 174, 194, 14, 73, 171, 21, 194, 117,
     151, 175, 139, 45, 110, 17, 127, 196, 106, 148, 124, 194,
     26, 190, 169, 118, 195, 59, 157, 150, 31, 197, 147, 6,
     143, 161, 79, 67, 134, 68, 163, 61, 104, 124, 56, 39,
     115, 99, 140, 101, 63, 91, 124, 4, 134, 110, 132, 61,
     150, 96, 116, 167, 80, 174, 115, 169, 14, 184, 24, 47,
     4, 188, 60, 109, 64, 68, 148, 179, 168, 41, 80, 183,
     84, 156, 187, 18, 18, 119, 79, 169, 168, 148, 88, 0,
     122, 3, 169, 88, 139, 146, 88, 144, 86, 148, 5, 150,
     17, 105, 81, 137, 98, 113, 120, 182, 69, 107 >>

\* tolower() of <ctype.h> in the "C" locale.
tolower(c) == IF c \in 65..90 THEN c + 32 ELSE c

\* a % b of C for b > 0: the remainder has the sign of a.
CRemainder(a, b) == IF a >= 0 THEN a % b ELSE -((-a) % b)

\* The loop of hash_tag from its n-th round on.
RECURSIVE hash_tag_loop(_, _, _, _, _, _)
hash_tag_loop(kp, len, n, i, f0, f1) ==
  IF n >= len
    THEN CRemainder(g[(f0 % 200) + 1] + g[(f1 % 200) + 1], 150)
    ELSE LET c == tolower(kp[n + 1])
         IN IF c < 45 \/ c > 121
              THEN -1
              ELSE hash_tag_loop(kp, len, n + 1,
                                 IF i + 77 >= 109 THEN -45 ELSE i + 77,
                                 f0 + T0[i + c + 1], f1 + T1[i + c + 1])

hash_tag(kp, len) ==
  IF len < 1 \/ len > 14 THEN -1 ELSE hash_tag_loop(kp, len, 0, -45, 0, 0)

\* The byte at index k of the C string s: its k-th byte, or the NUL that
\* ends it.  case_memcmp never reads past that NUL: it stops at the first
\* difference, and the bytes of a name that passed hash_tag are not 0.
CStringByte(s, k) == IF k < Len(s) THEN s[k + 1] ELSE 0

\* case_memcmp() after k bytes were found equal.
RECURSIVE case_memcmp_from(_, _, _, _)
case_memcmp_from(s1, s2, n, k) ==
  IF k >= n THEN 0
  ELSE LET c1 == tolower(s1[k + 1])
           c2 == tolower(CStringByte(s2, k))
       IN IF c1 # c2 THEN c1 - c2 ELSE case_memcmp_from(s1, s2, n, k + 1)

case_memcmp(s1, s2, n) == case_memcmp_from(s1, s2, n, 0)

gumbo_normalized_tagname(tag) == kGumboTagNames[tag + 1]

gumbo_tagn_enum_at(tagname, length, position) ==
  IF position >= 0
     /\ case_memcmp(tagname, kGumboTagNames[position + 1], length) = 0
    THEN position
    ELSE GUMBO_TAG_UNKNOWN

gumbo_tagn_enum(tagname, length) ==
  gumbo_tagn_enum_at(tagname, length, hash_tag(tagname, length))

\* strlen() of a name that holds no NUL.
gumbo_tag_enum(tagname) == gumbo_tagn_enum(tagname, Len(tagname))

\* No tag was looked up yet: a value that is no GumboTag.
NoTag == GUMBO_TAG_LAST + 1
NoLookup == [op |-> "init", of |-> NoTag, length |-> 0, result |-> NoTag]

InitNoLookup ==
  /\ lookup_name = << >>
  /\ lookup = NoLookup

---------------------------------------------------------------------------
(* The arena allocator of src/src/arena.c: its state.  A pointer into a    *)
(* chunk is [chunk, off]: the chunk and the byte offset from its `data`.   *)

NULL == 0
ARENA_ALIGNMENT == 8

MaxChunkWords == 3   \* ARENA_CHUNK_SIZE, counted in units of ARENA_ALIGNMENT
MaxChunks == 3       \* blocks the system malloc() can have live at a time
MaxDestroys == 2     \* arena_destroy calls made on one arena

ARENA_CHUNK_SIZE == MaxChunkWords * ARENA_ALIGNMENT

\* Two parses, each with its own GumboArena.
Parses == {1, 2}
Chunks == 1..MaxChunks

NoPointer == [chunk |-> NULL, off |-> 0]

\* A GumboArena before arena_init, with the number of arena_init and
\* arena_destroy calls made on it.
NoArena == [head |-> NULL, allocation_ptr |-> NoPointer,
            inits |-> 0, destroys |-> 0]

\* A block malloc() has not handed out, or that free() took back.
NoChunk == [state |-> "free", next |-> NULL]

NoArenaRet ==
  [op |-> "init", parse |-> 0, size |-> 0, obj |-> NoPointer,
   new_chunk |-> FALSE, released |-> << >>, faults |-> {}, count |-> 0,
   pre |-> NoArena, pre_heap |-> [c \in Chunks |-> NoChunk]]

InitNoArena ==
  /\ arenas = [p \in Parses |-> NoArena]
  /\ heap = [c \in Chunks |-> NoChunk]
  /\ gChunksAllocated = 0
  /\ owned = [p \in Parses |-> << >>]
  /\ blocks = [p \in Parses |-> {}]
  /\ arena_ret = NoArenaRet

\* No entry of kNamedEntities was examined yet.
NoEntity == [op |-> "init", index |-> 0, other |-> 0, cmp |-> 0]

\* No caret diagnostic was written yet.
NoCaret ==
  [op |-> "init", original_text |-> 0, column |-> 0, line_start |-> 0,
   line_end |-> 0, length |-> 0, num_spaces |-> 0, asserted |-> FALSE]

\* A GumboStringBuffer and what the last call on it did: `data` are the
\* bytes written from buffer->data on (the first `length` of them are the
\* contents), `ptr` the block buffer->data points to, `chunk_size` the value
\* of ARENA_CHUNK_SIZE the code was built with, `out_of_memory` whether the
\* call raised the out-of-memory condition, `faults` what it did that the C
\* standard leaves undefined, `result` the string gumbo_string_buffer_to_string
\* returned, `calls` the number of calls so far, `arg` the number of bytes
\* or the capacity the call asked for and `pre` the buffer before the call.
NoStringPiece == [ptr |-> NULL, data |-> << >>]

NoBufferFields ==
  [ptr |-> NULL, data |-> << >>, length |-> 0, capacity |-> 0]

NoBuffer ==
  [op |-> "none", ptr |-> NULL, data |-> << >>, length |-> 0, capacity |-> 0,
   chunk_size |-> 0, out_of_memory |-> FALSE, faults |-> {},
   result |-> NoStringPiece, calls |-> 0, arg |-> 0,
   pre |-> NoBufferFields]

InitNoAux ==
  /\ InitNoArena
  /\ entity = NoEntity
  /\ caret = NoCaret
  /\ string_buffer = NoBuffer

\* No tree is built in the specifications of the cursor.
InitNoTree ==
  /\ children = << >>
  /\ parent = << >>
  /\ index_within_parent = << >>

\* utf8iterator_next()
Advance ==
  /\ ret.op # "abort"
  /\ SetMachine(utf8iterator_next(Machine))
  /\ ret' = Returned("next", FALSE, kGumboNoChar, NoOutput, TRUE)
  /\ UNCHANGED << input, options, token_start, node_text, marked >>
  /\ UNCHANGED << treeVars, lookupVars, auxVars >>

\* The caller of consume_char_ref getting its result r.
CharRefReturns(r, is_in_attribute, allowed) ==
  /\ SetMachine(r.m)
  /\ ret' = Returned(IF r.trapped THEN "abort" ELSE "consume_char_ref",
                     is_in_attribute, allowed, r.output, r.status)

\* consume_char_ref(), called by the tokenizer with the cursor on a `&`.
\* When it returns no character the tokenizer emits the `&` itself and
\* advances, so it is not called twice on the same `&`.
ConsumeCharRef ==
  /\ ret.op # "abort"
  /\ iter.current = CH_AMP
  /\ ret.op = "consume_char_ref" => ret.first # kGumboNoChar
  /\ \E is_in_attribute \in BOOLEAN, allowed \in AllowedChars, build \in Builds :
       CharRefReturns(consume_char_ref(Machine, allowed, is_in_attribute, build),
                      is_in_attribute, allowed)
  /\ marked' = [made |-> TRUE, it |-> iter]
  /\ UNCHANGED << input, options, token_start, node_text >>
  /\ UNCHANGED << treeVars, lookupVars, auxVars >>

\* The tokenizer finishing a non-empty character token: its original_text
\* runs from the token's start to the cursor, and the next token starts at
\* the cursor.
EmitToken ==
  /\ ret.op # "abort"
  /\ iter.start > token_start
  /\ node_text' = [data |-> token_start, length |-> iter.start - token_start]
  /\ token_start' = iter.start
  /\ UNCHANGED << input, options, iter, errors, raised, ret, marked >>
  /\ UNCHANGED << treeVars, lookupVars, auxVars >>

Init == InitCursor(Inputs, -1..MaxCap) /\ InitNoTree /\ InitNoLookup /\ InitNoAux

Next == Advance \/ ConsumeCharRef \/ EmitToken

Spec == Init /\ [][Next]_vars

InitNamed == InitCursor(NamedInputs, {-1}) /\ InitNoTree /\ InitNoLookup /\ InitNoAux

NextResolver == Advance \/ ConsumeCharRef

SpecNamed == InitNamed /\ [][NextResolver]_vars

InitLegacy == InitCursor(LegacyInputs, {-1}) /\ InitNoTree /\ InitNoLookup /\ InitNoAux

SpecLegacy == InitLegacy /\ [][NextResolver]_vars

InitNumeric == InitCursor(NumericInputs, {-1}) /\ InitNoTree /\ InitNoLookup /\ InitNoAux

SpecNumeric == InitNumeric /\ [][NextResolver]_vars

---------------------------------------------------------------------------
(* The output tree: the children vector of every node, and each node's     *)
(* parent and index_within_parent.  Node 0 is the document; nodes          *)
(* 1..MaxNodes are created detached (parent NULL, index_within_parent -1). *)

Document == 0
Nodes == 1..MaxNodes

Tree == [children |-> children, parent |-> parent,
         index_within_parent |-> index_within_parent]

SetTree(t) ==
  /\ children' = t.children
  /\ parent' = t.parent
  /\ index_within_parent' = t.index_within_parent

\* gumbo_vector_insert_at / gumbo_vector_remove_at / gumbo_vector_index_of
\* on a sequence, with the 0-based indices of the C code.
gumbo_vector_insert_at(element, index, vector) ==
  SubSeq(vector, 1, index) \o <<element>> \o SubSeq(vector, index + 1, Len(vector))

gumbo_vector_remove_at(index, vector) ==
  SubSeq(vector, 1, index) \o SubSeq(vector, index + 2, Len(vector))

gumbo_vector_index_of(vector, element) ==
  IF \E i \in 1..Len(vector) : vector[i] = element
    THEN (CHOOSE i \in 1..Len(vector) : vector[i] = element) - 1
    ELSE -1

\* The nodes of the subtree rooted at n.
RECURSIVE Subtree(_, _)
Subtree(t, n) ==
  {n} \cup UNION {Subtree(t, t.children[n][i]) : i \in 1..Len(t.children[n])}

\* Every child at position i or later gets its position as its index.
Renumber(t, p, from) ==
  [t EXCEPT !.index_within_parent =
     [n \in DOMAIN @ |->
        IF \E i \in (from + 1)..Len(t.children[p]) : t.children[p][i] = n
          THEN gumbo_vector_index_of(t.children[p], n)
          ELSE @[n]]]

\* Append a detached node as the last child of p.
append_node(t, p, node) ==
  [t EXCEPT !.parent[node] = p,
            !.index_within_parent[node] = Len(t.children[p]),
            !.children[p] = Append(@, node)]

\* Insert a detached node at position index of p's children; the siblings
\* after it move up by one.
insert_node(t, p, index, node) ==
  Renumber([t EXCEPT !.parent[node] = p,
                     !.index_within_parent[node] = index,
                     !.children[p] = gumbo_vector_insert_at(node, index, @)],
           p, index + 1)

\* A faulty variant of remove_from_parent: the siblings keep their indices.
remove_from_parent_no_renumber(t, node) ==
  LET p == t.parent[node]
      index == gumbo_vector_index_of(t.children[p], node)
  IN [t EXCEPT !.children[p] = gumbo_vector_remove_at(index, @),
               !.parent[node] = NoNode,
               !.index_within_parent[node] = -1]

\* Detach a node from its parent; the siblings after it move down by one.
remove_from_parent(t, node) ==
  LET p == t.parent[node]
      index == gumbo_vector_index_of(t.children[p], node)
  IN Renumber([t EXCEPT !.children[p] = gumbo_vector_remove_at(index, @),
                        !.parent[node] = NoNode,
                        !.index_within_parent[node] = -1],
              p, index)

InitTree ==
  /\ children = [n \in {Document} \cup Nodes |-> << >>]
  /\ parent = [n \in {Document} \cup Nodes |-> NoNode]
  /\ index_within_parent = [n \in {Document} \cup Nodes |-> -1]

AppendNode ==
  \E node \in Nodes, p \in {Document} \cup Nodes :
    /\ parent[node] = NoNode
    /\ p \notin Subtree(Tree, node)
    /\ SetTree(append_node(Tree, p, node))
    /\ UNCHANGED << cursorVars, lookupVars, auxVars >>

InsertNode ==
  \E node \in Nodes, p \in {Document} \cup Nodes :
    /\ parent[node] = NoNode
    /\ p \notin Subtree(Tree, node)
    /\ \E index \in 0..(Len(children[p]) - 1) :
         SetTree(insert_node(Tree, p, index, node))
    /\ UNCHANGED << cursorVars, lookupVars, auxVars >>

RemoveFromParent ==
  \E node \in Nodes :
    /\ parent[node] # NoNode
    /\ SetTree(remove_from_parent(Tree, node))
    /\ UNCHANGED << cursorVars, lookupVars, auxVars >>

NextTree == AppendNode \/ InsertNode \/ RemoveFromParent

\* No input is read in the specification of the tree.
InitTreeOnly == InitCursor({<< >>}, {-1}) /\ InitTree /\ InitNoLookup /\ InitNoAux

SpecTree == InitTreeOnly /\ [][NextTree]_vars

---------------------------------------------------------------------------
(* Properties.                                                             *)

\* C1: in the tree, every child c = e.children[i] has c.parent = e and
\* c.index_within_parent = i, and every node n that has a parent is found at
\* n.parent.children[n.index_within_parent].
C1_ParentChildAgree ==
  /\ \A e \in DOMAIN children : \A i \in 1..Len(children[e]) :
       /\ parent[children[e][i]] = e
       /\ index_within_parent[children[e][i]] = i - 1
  /\ \A n \in DOMAIN parent :
       parent[n] # NoNode =>
         /\ index_within_parent[n] \in 0..(Len(children[parent[n]]) - 1)
         /\ children[parent[n]][index_within_parent[n] + 1] = n

\* A tree two levels deep below the document in which a node with several
\* children has lost or gained one before its last child.
C1_Witness ==
  \E e \in Nodes :
    /\ parent[e] = Document
    /\ Len(children[e]) >= 2
    /\ children[e][1] > children[e][2]
    /\ \E n \in Nodes : parent[n] = NoNode /\ n # e

InputEnd == Len(input)

InBuffer(data, length) ==
  /\ data >= 0
  /\ data < InputEnd
  /\ data + length <= InputEnd

SmallerOf(a, b) == IF a <= b THEN a ELSE b

\* C3: with max_errors >= 0 the errors vector never holds more than
\* max_errors records: the first max_errors diagnostics raised are recorded
\* and the later ones dropped; with max_errors = -1 every diagnostic raised
\* is recorded.
C3_ErrorCap ==
  /\ options.max_errors >= 0 =>
       /\ Len(errors) <= options.max_errors
       /\ Len(errors) = SmallerOf(raised, options.max_errors)
  /\ options.max_errors = -1 => Len(errors) = raised

\* The cap was reached, a later diagnostic was dropped, and the cursor went
\* on to the end of the input.
C3_Witness ==
  /\ options.max_errors = 1
  /\ Len(errors) = 1
  /\ raised >= 3
  /\ iter.current = EofChar


---------------------------------------------------------------------------
(* consume_char_ref seen from its caller: ret holds what the last call     *)
(* returned and the iterator before it, iter and errors what it left.      *)

AfterCharRef == ret.op = "consume_char_ref"

\* Offset of the first byte after the `&` the call started on.
RefStart == ret.pre.start + ret.pre.width

ByteAt(p) == IF p < InputEnd THEN input[p + 1] ELSE EofChar

IsPrefixAt(i, p) ==
  LET n == char_ref.entries[i].name IN
  /\ p + Len(n) <= InputEnd
  /\ SubSeq(input, p + 1, p + Len(n)) = n

\* The table entries that are prefixes of the input after the `&`.
PrefixEntries ==
  IF RefStart < InputEnd
    THEN {i \in char_ref.by_first[input[RefStart + 1]] :
            IsPrefixAt(i, RefStart)}
    ELSE {}

LongestOf(entries, S) ==
  entries[CHOOSE i \in S :
            \A j \in S : Len(entries[j].name) <= Len(entries[i].name)]

LongestEntry == LongestOf(char_ref.entries, PrefixEntries)

LongestEnd == RefStart + Len(LongestEntry.name)

LongestHasSemicolon ==
  LongestEntry.name[Len(LongestEntry.name)] = CH_SEMI

\* The diagnostics the call recorded.
NewErrors == SubSeq(errors, ret.pre_errs + 1, Len(errors))

ErrorsOfType(types) ==
  {i \in 1..Len(NewErrors) : NewErrors[i].type \in types}

CharRefTypes ==
  {"NUMERIC_CHAR_REF_NO_DIGITS", "NUMERIC_CHAR_REF_WITHOUT_SEMICOLON",
   "NUMERIC_CHAR_REF_INVALID", "NAMED_CHAR_REF_WITHOUT_SEMICOLON",
   "NAMED_CHAR_REF_INVALID"}

\* The cursor is where it was before the call, on the `&`.
BackAtAmpersand ==
  /\ iter.start = ret.pre.start
  /\ iter.pos = ret.pre.pos
  /\ iter.current = CH_AMP
  /\ iter.width = ret.pre.width

ReturnedNothing == ret.first = kGumboNoChar /\ ret.second = kGumboNoChar

ReturnedLongest ==
  /\ ret.first = LongestEntry.first
  /\ ret.second = LongestEntry.second

AtAmpersand(e) ==
  /\ e.position = ret.pre.pos
  /\ e.original_text = ret.pre.start

\* C4: when several table entries are prefixes of the input after `&`, the
\* resolver consumes the longest of them (the cursor ends right after it) and
\* returns that entry's codepoints.  Stated for text context and for a longest
\* entry that ends in `;`, where no rule of the attribute context applies.
C4_LongestMatch ==
  (/\ AfterCharRef
   /\ Cardinality(PrefixEntries) >= 2
   /\ ~ret.is_in_attribute \/ LongestHasSemicolon)
    => /\ iter.start = LongestEnd
       /\ ReturnedLongest

\* C5: for a legacy name N (accepted without `;`), `&N;` is resolved as one
\* semicolon-terminated reference: the `;` is consumed with the name, the
\* success flag is true and no diagnostic is recorded.
C5_SemicolonFormPreferred ==
  (/\ AfterCharRef
   /\ ret.pre.start = 0
   /\ SubSeq(input, 2, InputEnd - 1) \in LegacyNames
   /\ input[InputEnd] = CH_SEMI)
    => /\ iter.start = InputEnd
       /\ ret.first # kGumboNoChar
       /\ ret.status
       /\ NewErrors = << >>

\* C6: in attribute context, when the longest match lacks `;` and the input
\* character right after it is `=` or an ASCII letter or digit, nothing is
\* consumed: no codepoint, cursor back at the `&`, no diagnostic, flag true.
C6_AttributeNotConsumed ==
  (/\ AfterCharRef
   /\ ret.is_in_attribute
   /\ PrefixEntries # {}
   /\ ~LongestHasSemicolon
   /\ ByteAt(LongestEnd) = CH_EQ \/ isalnum(ByteAt(LongestEnd)))
    => /\ ReturnedNothing
       /\ BackAtAmpersand
       /\ ErrorsOfType(CharRefTypes) = {}
       /\ ret.status

\* C7: in attribute context, when the longest match lacks `;` and the input
\* character right after it is neither `=` nor an ASCII letter or digit, the
\* reference is consumed: its codepoint is returned, the cursor is past the
\* name, and one named-char-ref-without-semicolon diagnostic is recorded.
C7_AttributeConsumed ==
  (/\ AfterCharRef
   /\ ret.is_in_attribute
   /\ PrefixEntries # {}
   /\ ~LongestHasSemicolon
   /\ ByteAt(LongestEnd) # CH_EQ
   /\ ~isalnum(ByteAt(LongestEnd)))
    => /\ ReturnedLongest
       /\ iter.start = LongestEnd
       /\ Cardinality(ErrorsOfType({"NAMED_CHAR_REF_WITHOUT_SEMICOLON"})) = 1

\* C8: in text context, when the longest match lacks `;`, the match is
\* consumed (the cursor ends exactly after the name), its codepoint is
\* returned, the flag is false, and exactly one
\* named-char-ref-without-semicolon diagnostic is recorded, at the position
\* and original_text of the `&`.
C8_TextWithoutSemicolon ==
  (/\ AfterCharRef
   /\ ~ret.is_in_attribute
   /\ PrefixEntries # {}
   /\ ~LongestHasSemicolon)
    => /\ iter.start = LongestEnd
       /\ ReturnedLongest
       /\ ~ret.status
       /\ Cardinality(ErrorsOfType({"NAMED_CHAR_REF_WITHOUT_SEMICOLON"})) = 1
       /\ \A i \in ErrorsOfType({"NAMED_CHAR_REF_WITHOUT_SEMICOLON"}) :
            AtAmpersand(NewErrors[i])

\* The end of the run of ASCII letters and digits that starts at offset p.
RECURSIVE RunEnd(_)
RunEnd(p) == IF isalnum(ByteAt(p)) THEN RunEnd(p + 1) ELSE p

\* `&` was followed by a non-empty run of letters and digits of which no
\* table entry is a prefix.
UnknownName ==
  /\ AfterCharRef
  /\ RunEnd(RefStart) > RefStart
  /\ PrefixEntries = {}

MaxCodePoint == 1114111

\* The value up to which a digit string is followed: one past 0x10ffff.
TooLarge == MaxCodePoint + 1

\* The value of the digits from offset p on, in the given base, starting from
\* acc and saturating at TooLarge.
RECURSIVE DigitsValue(_, _, _)
DigitsValue(p, is_hex, acc) ==
  LET d == parse_digit(ByteAt(p), is_hex)
      v == acc * (IF is_hex THEN 16 ELSE 10) + d
  IN IF d = -1 THEN acc
     ELSE DigitsValue(p + 1, is_hex, IF v > TooLarge THEN TooLarge ELSE v)

NumericIsHex == ByteAt(RefStart + 1) \in {120, 88}

NumericDigitsStart == RefStart + 1 + (IF NumericIsHex THEN 1 ELSE 0)

\* The call was on `&#` followed by at least one digit.
NumericRef ==
  /\ ret.op \in {"consume_char_ref", "abort"}
  /\ ByteAt(RefStart) = CH_HASH
  /\ parse_digit(ByteAt(NumericDigitsStart), NumericIsHex) # -1

NumericValue == DigitsValue(NumericDigitsStart, NumericIsHex, 0)

\* C10: a numeric reference whose value is a surrogate or exceeds 0x10FFFF,
\* however many digits it has, returns U+FFFD with a
\* numeric-char-ref-invalid diagnostic; no numeric reference returns a value
\* outside 0..0x10FFFF.
C10_NumericOutOfRange ==
  NumericRef =>
    /\ ret.op = "consume_char_ref"
    /\ ret.first \in 0..MaxCodePoint
    /\ (NumericValue \in 55296..57343 \/ NumericValue > MaxCodePoint) =>
         /\ ret.first = kUtf8ReplacementChar
         /\ ErrorsOfType({"NUMERIC_CHAR_REF_INVALID"}) # {}

---------------------------------------------------------------------------
(* Numeric references by value.                                            *)

\* Bound of SpecNumericValue: every value from 0 to MaxSmallValue is written
\* out as a reference.
MaxSmallValue == 160

\* Values around 0x800, the surrogates, the noncharacters and 0x10ffff.
EdgeValues ==
  {2047, 2048, 55295, 55296, 57343, 57344, 64975, 64976, 65007, 65008, 65533, 65534,
   65535, 65536, 131070, 131071, 1114109, 1114110, 1114111, 1114112}

\* The ASCII digit for d < 16, as parse_digit reads it.
DigitChar(d, lower) ==
  IF d < 10 THEN 48 + d ELSE (IF lower THEN 97 ELSE 65) + d - 10

RECURSIVE DigitsOf(_, _, _)
DigitsOf(v, base, lower) ==
  IF v < base THEN <<DigitChar(v, lower)>>
  ELSE DigitsOf(v \div base, base, lower) \o <<DigitChar(v % base, lower)>>

\* `&#` and the value in decimal, after `x` in upper-case hexadecimal or after
\* `X` in lower-case hexadecimal, and a tail: `;`, nothing, or `z`.
NumericValueInputs ==
  {<<CH_AMP, CH_HASH>> \o f.x \o DigitsOf(v, f.base, f.lower) \o tail :
     f \in {[x |-> << >>, base |-> 10, lower |-> FALSE],
            [x |-> <<120>>, base |-> 16, lower |-> FALSE],
            [x |-> <<88>>, base |-> 16, lower |-> TRUE]},
     v \in (0..MaxSmallValue) \cup EdgeValues,
     tail \in { <<CH_SEMI>>, << >>, <<122>> }}

InitNumericValue == InitCursor(NumericValueInputs, {-1}) /\ InitNoTree /\ InitNoLookup /\ InitNoAux

SpecNumericValue == InitNumericValue /\ [][NextResolver]_vars

\* The values the replacement table is said to cover.
ReplacedValues == {0, 13} \cup (128..159)

\* The parse-error list of code points.
OnInvalidList(v) ==
  \/ v \in (1..8) \cup {11} \cup (14..31)
  \/ v \in 127..159
  \/ v \in 64976..65007
  \/ v % 65536 \in {65534, 65535}

InvalidDiagnostics == ErrorsOfType({"NUMERIC_CHAR_REF_INVALID"})

\* C11: a numeric reference whose value is 0x00, 0x0D or in 0x80..0x9F returns
\* the replacement of the table (0x80 gives U+20AC, 0x00 gives U+FFFD) with a
\* numeric-char-ref-invalid diagnostic and a false flag; another value on the
\* parse-error list is returned unchanged with that diagnostic; every other
\* value is returned unchanged without it.  (Values that are surrogates or
\* exceed 0x10ffff are the other case of the rule and are not covered here.)
C11_NumericReplacement ==
  (/\ NumericRef
   /\ NumericValue <= MaxCodePoint
   /\ NumericValue \notin 55296..57343)
    => /\ ret.op = "consume_char_ref"
       /\ IF NumericValue \in ReplacedValues
            THEN /\ \E i \in 1..Len(kCharReplacements) :
                      /\ kCharReplacements[i][1] = NumericValue
                      /\ kCharReplacements[i][2] = ret.first
                 /\ NumericValue = 128 => ret.first = 8364
                 /\ NumericValue = 0 => ret.first = kUtf8ReplacementChar
                 /\ Cardinality(InvalidDiagnostics) = 1
                 /\ ~ret.status
          ELSE IF OnInvalidList(NumericValue)
            THEN /\ ret.first = NumericValue
                 /\ Cardinality(InvalidDiagnostics) = 1
          ELSE /\ ret.first = NumericValue
               /\ InvalidDiagnostics = {}

\* `&#x80;` resolved to U+20AC: a replaced value, terminated by `;`, reported.
C11_Witness ==
  /\ NumericRef
  /\ NumericValue = 128
  /\ ret.first = 8364
  /\ ByteAt(iter.start - 1) = CH_SEMI
  /\ Len(NewErrors) = 1
  /\ ~ret.status

\* The end of the run of digits of the reference.
RECURSIVE DigitsEnd(_, _)
DigitsEnd(p, is_hex) ==
  IF parse_digit(ByteAt(p), is_hex) # -1 THEN DigitsEnd(p + 1, is_hex) ELSE p

NumericDigitsEnd == DigitsEnd(NumericDigitsStart, NumericIsHex)

WithoutSemicolonDiagnostics ==
  ErrorsOfType({"NUMERIC_CHAR_REF_WITHOUT_SEMICOLON"})

\* C12: a numeric reference with at least one digit always returns a
\* codepoint and consumes all of its digits.  Without a `;` after the digits
\* the cursor stops on the character after them, the flag is false and one
\* numeric-char-ref-without-semicolon diagnostic is recorded at the `&`; with
\* a `;` the cursor stops after the `;` and no such diagnostic is recorded.
C12_NumericSemicolon ==
  NumericRef =>
    /\ ret.op = "consume_char_ref"
    /\ ret.first # kGumboNoChar
    /\ IF ByteAt(NumericDigitsEnd) = CH_SEMI
         THEN /\ iter.start = NumericDigitsEnd + 1
              /\ WithoutSemicolonDiagnostics = {}
         ELSE /\ iter.start = NumericDigitsEnd
              /\ ~ret.status
              /\ Cardinality(WithoutSemicolonDiagnostics) = 1
              /\ \A i \in WithoutSemicolonDiagnostics :
                   AtAmpersand(NewErrors[i])

---------------------------------------------------------------------------
(* The cursor alone: utf8iterator_init on a byte string, then              *)
(* utf8iterator_next until the end of the input.                           *)

MaxCursorLen == 4    \* bytes of an input drawn from CursorBytes

\* TAB, LF, CR, `a`, a continuation byte, and the first bytes of a two-byte
\* and of a three-byte sequence.
CursorBytes == {CH_TAB, CH_LF, CH_CR, 97, 128, 195, 226}

CursorInputs == SeqsUpTo(CursorBytes, MaxCursorLen)

\* A faulty variant of gumbo_string_buffer_append_codepoint: two bytes are
\* used up to 0xfff.
append_codepoint_two_bytes(c) ==
  IF c <= 127 THEN <<c>>
  ELSE IF c <= 4095 THEN <<192 + (c \div 64), 128 + (c % 64)>>
  ELSE IF c <= 65535
    THEN <<224 + (c \div 4096), 128 + ((c \div 64) % 64), 128 + (c % 64)>>
  ELSE <<240 + (c \div 262144), 128 + ((c \div 4096) % 64),
         128 + ((c \div 64) % 64), 128 + (c % 64)>>

\* gumbo_string_buffer_append_codepoint(): the UTF-8 encoding of c.
append_codepoint(c) ==
  IF c <= 127 THEN <<c>>
  ELSE IF c <= 2047 THEN <<192 + (c \div 64), 128 + (c % 64)>>
  ELSE IF c <= 65535
    THEN <<224 + (c \div 4096), 128 + ((c \div 64) % 64), 128 + (c % 64)>>
  ELSE <<240 + (c \div 262144), 128 + ((c \div 4096) % 64),
         128 + ((c \div 64) % 64), 128 + (c % 64)>>

\* The code points that have a UTF-8 encoding, among those of interest.
EncodedValues ==
  {v \in (0..MaxSmallValue) \cup EdgeValues :
     v <= MaxCodePoint /\ v \notin 55296..57343}

\* One encoded code point, alone or with `a` before it, after it, or both.
EncodedInputs ==
  {lead \o append_codepoint(v) \o tail :
     lead \in {<< >>, <<97>>}, v \in EncodedValues, tail \in {<< >>, <<97>>}}

\* tab_stop of GumboOptions: any positive number, 8 by default.
TabStops == {1, 3, DefaultTabStop}

InitCursorOnly ==
  /\ input \in CursorInputs \cup EncodedInputs
  /\ options \in [max_errors : {-1}, tab_stop : TabStops]
  /\ InitMachine(utf8iterator_init)
  /\ token_start = 0
  /\ node_text = NoSlice
  /\ InitNoTree
  /\ InitNoLookup /\ InitNoAux

SpecCursor == InitCursorOnly /\ [][Advance]_vars

\* The cursor was last moved by utf8iterator_init or utf8iterator_next.
CursorRead == ret.op \in {"init", "next"}

\* The offset at which the last read_char started to decode.
ReadStart == IF ret.op = "init" THEN 0 ELSE ret.pre.start + ret.pre.width

\* What the decoder makes of the bytes from offset c on, entered in the given
\* state: accept (with the code point), reject, or truncated by the end of
\* the input; `at` is the offset of the last byte it looked at.
RECURSIVE Decoded(_, _, _)
Decoded(c, state, codep) ==
  IF c >= InputEnd THEN [kind |-> "truncated", codep |-> codep, at |-> c]
  ELSE LET d == decode(state, codep, input[c + 1])
       IN IF d.state = UTF8_ACCEPT
            THEN [kind |-> "accept", codep |-> d.codep, at |-> c]
          ELSE IF d.state = UTF8_REJECT
            THEN [kind |-> "reject", codep |-> d.codep, at |-> c]
          ELSE Decoded(c + 1, d.state, d.codep)

DecodedAt(p) ==
  IF p >= InputEnd THEN [kind |-> "eof", codep |-> EofChar, at |-> p]
  ELSE Decoded(p, UTF8_ACCEPT, 0)

\* Where the cursor stands when it is moved to offset p: on p, or on the LF
\* of a CR LF pair that starts at p.
ResumeAt(p) ==
  IF ByteAt(p) = CH_CR /\ ByteAt(p + 1) = CH_LF THEN p + 1 ELSE p

\* C13: when the decoder rejects the bytes at the cursor, the cursor delivers
\* U+FFFD and records exactly one invalid-utf8 diagnostic whose payload is
\* the one byte at the cursor; the next advance moves the cursor forward by
\* exactly one byte, where decoding resumes.
C13_RejectOneByte ==
  /\ (CursorRead /\ DecodedAt(ReadStart).kind = "reject") =>
       /\ iter.current = kUtf8ReplacementChar
       /\ iter.start = ReadStart
       /\ Len(NewErrors) = 1
       /\ NewErrors[1].type = "UTF8_INVALID"
       /\ NewErrors[1].raw = <<input[ReadStart + 1]>>
  /\ (ret.op = "next" /\ DecodedAt(ret.pre.start).kind = "reject") =>
       iter.start = ResumeAt(ret.pre.start + 1)

\* C14: when the input ends in the middle of a multi-byte sequence, the
\* cursor delivers U+FFFD for the incomplete tail and records exactly one
\* truncated-utf8 diagnostic; the next advance reaches the end of the input
\* (current = -1) and records nothing, so U+FFFD is delivered once.
C14_TruncatedOnce ==
  /\ (CursorRead /\ DecodedAt(ReadStart).kind = "truncated") =>
       /\ iter.current = kUtf8ReplacementChar
       /\ iter.start = ReadStart
       /\ Len(NewErrors) = 1
       /\ NewErrors[1].type = "UTF8_TRUNCATED"
  /\ (ret.op = "next" /\ DecodedAt(ret.pre.start).kind = "truncated") =>
       /\ iter.current = EofChar
       /\ iter.start = InputEnd
       /\ NewErrors = << >>

\* `a`, TAB, then the first two bytes of a three-byte sequence: the cursor
\* has passed the tail and is at the end of the input.
C14_Witness ==
  /\ ret.op = "next"
  /\ DecodedAt(ret.pre.start).kind = "truncated"
  /\ ret.pre.start = 2
  /\ InputEnd = 4
  /\ ret.pre.current = kUtf8ReplacementChar
  /\ iter.current = EofChar
  /\ Len(errors) = 1

\* C15: the cursor never delivers U+000D.  A CR followed by LF is delivered
\* with that LF as one U+000A (the cursor stands on the LF, and the advance
\* after it goes to the byte after the LF, the reported offset being two
\* more than that of the CR); a CR not followed by LF is delivered as U+000A.
C15_CarriageReturn ==
  /\ iter.current # CH_CR
  /\ (CursorRead /\ ByteAt(ReadStart) = CH_CR) =>
       /\ iter.current = CH_LF
       /\ NewErrors = << >>
       /\ iter.start = (IF ByteAt(ReadStart + 1) = CH_LF
                          THEN ReadStart + 1 ELSE ReadStart)
  /\ (/\ ret.op = "next"
      /\ ret.pre.start >= 1
      /\ ByteAt(ret.pre.start - 1) = CH_CR
      /\ ByteAt(ret.pre.start) = CH_LF)
       => /\ ret.pre.current = CH_LF
          /\ iter.start = ResumeAt(ret.pre.start + 1)
          /\ iter.pos.offset = iter.start
          /\ iter.pos.line = ret.pre.pos.line + 1

\* `a` CR LF `a`: the cursor has passed the pair and stands on the second
\* `a`, at offset 3 of line 2.
C15_Witness ==
  /\ ret.op = "next"
  /\ ret.pre.start = 2
  /\ ByteAt(1) = CH_CR
  /\ ByteAt(2) = CH_LF
  /\ ret.pre.current = CH_LF
  /\ iter.current = 97
  /\ iter.pos = [line |-> 2, column |-> 1, offset |-> 3]

\* The code point the decoder accepted at the offset where the cursor last
\* read, if it accepted one that is not CR.
DecodedCodepoint ==
  /\ CursorRead
  /\ DecodedAt(ReadStart).kind = "accept"
  /\ DecodedAt(ReadStart).codep # CH_CR

\* The cursor delivered U+FFFD with one diagnostic.
DeliveredReplacement ==
  /\ iter.current = kUtf8ReplacementChar
  /\ Len(NewErrors) = 1
  /\ NewErrors[1].type = "UTF8_INVALID"

\* The cursor delivered the decoded code point with no diagnostic.
DeliveredUnchanged ==
  /\ iter.current = DecodedAt(ReadStart).codep
  /\ NewErrors = << >>

\* The list as the claim words it: the C0 controls U+0000..U+001F other than
\* TAB, LF, FF and CR, then U+000B, U+007F..U+009F, U+FDD0..U+FDEF and the
\* code points whose low 16 bits are FFFE or FFFF.
OnClaimedList(v) ==
  \/ v \in (0..31) \ {CH_TAB, CH_LF, CH_FF, CH_CR}
  \/ v = 11
  \/ v \in 127..159
  \/ v \in 64976..65007
  \/ v % 65536 \in {65534, 65535}

\* C16: every successfully decoded code point on the parse-error list (a C0
\* control other than TAB/LF/FF/CR, U+000B, U+007F..U+009F, U+FDD0..U+FDEF,
\* low 16 bits FFFE or FFFF) is delivered as U+FFFD with one diagnostic; every
\* other decoded code point (CR aside) is delivered unchanged with none.
C16_ParseErrorList ==
  DecodedCodepoint =>
    IF OnClaimedList(DecodedAt(ReadStart).codep)
      THEN DeliveredReplacement
      ELSE DeliveredUnchanged

\* C16 as it holds: the list is U+0001..U+0008, U+000B, U+000E..U+001F,
\* U+007F..U+009F, U+FDD0..U+FDEF and the code points whose low 16 bits are
\* FFFE or FFFF; U+0000, although a C0 control, is not on it and is delivered
\* unchanged with no diagnostic, like every other code point (CR aside).
C16_ParseErrorListWithoutNul ==
  DecodedCodepoint =>
    IF OnInvalidList(DecodedAt(ReadStart).codep)
      THEN DeliveredReplacement
      ELSE DeliveredUnchanged

\* `a`, then U+FDD0 in three bytes: delivered as U+FFFD with one diagnostic
\* whose payload is the three bytes.
C16_Witness ==
  /\ ret.op = "next"
  /\ DecodedCodepoint
  /\ DecodedAt(ReadStart).codep = 64976
  /\ DeliveredReplacement
  /\ NewErrors[1].raw = <<239, 183, 144>>
  /\ iter.width = 3

\* C17: line >= 1 and column >= 1 in every cursor state, and on an advance:
\* past a delivered U+000A the column becomes 1 and the line grows by 1; past
\* a TAB the line is unchanged and the column becomes a multiple of tab_stop
\* that is greater than the old column by at least 1 and at most tab_stop;
\* past any other code point but EOF the column grows by exactly 1 and the
\* line is unchanged.
C17_PositionTracking ==
  /\ iter.pos.line >= 1
  /\ iter.pos.column >= 1
  /\ ret.op = "next" =>
       IF ret.pre.current = CH_LF
         THEN /\ iter.pos.line = ret.pre.pos.line + 1
              /\ iter.pos.column = 1
       ELSE IF ret.pre.current = CH_TAB
         THEN /\ iter.pos.line = ret.pre.pos.line
              /\ iter.pos.column % options.tab_stop = 0
              /\ iter.pos.column - ret.pre.pos.column \in 1..options.tab_stop
       ELSE IF ret.pre.current # EofChar
         THEN /\ iter.pos.line = ret.pre.pos.line
              /\ iter.pos.column = ret.pre.pos.column + 1
       ELSE TRUE

\* With tab_stop 3: a TAB passed at column 3, on the second line, moves the
\* column to 6.
C17_Witness ==
  /\ ret.op = "next"
  /\ options.tab_stop = 3
  /\ ret.pre.current = CH_TAB
  /\ ret.pre.pos.line = 2
  /\ ret.pre.pos.column = 3
  /\ iter.pos.column = 6
  /\ iter.pos.line = 2

\* C18: in every cursor state the reported offset is the number of bytes
\* between the start of the input and the cursor's byte pointer, the LF
\* skipped after a CR included, and it lies within the input; an advance
\* never makes it smaller.
C18_OffsetIsBytesConsumed ==
  /\ iter.pos.offset = utf8iterator_get_char_pointer(Machine)
  /\ iter.pos.offset >= 0
  /\ iter.pos.offset <= InputEnd
  /\ ret.op = "next" => iter.pos.offset >= ret.pre.pos.offset

\* `a` CR LF: the cursor has passed the pair and is at the end of the input,
\* offset 3.
C18_Witness ==
  /\ ret.op = "next"
  /\ InputEnd = 3
  /\ ByteAt(1) = CH_CR
  /\ ByteAt(2) = CH_LF
  /\ ret.pre.pos.offset = 2
  /\ iter.pos.offset = 3
  /\ iter.current = EofChar

---------------------------------------------------------------------------
(* Tag lookup alone: gumbo_tagn_enum on a name, and gumbo_tag_enum on the  *)
(* name gumbo_normalized_tagname returned for a tag.                       *)

MaxShortTag == 2     \* bytes of a name drawn from TagBytes

\* `,`  `-`  `1`  `A`  `H`  `a`  `b`  `h`  `i`  `p`  `y`  `z`  0xC3
TagBytes == {44, 45, 49, 65, 72, 97, 98, 104, 105, 112, 121, 122, 195}

ToUpper(s) == [k \in 1..Len(s) |-> IF s[k] \in 97..122 THEN s[k] - 32 ELSE s[k]]

Capitalized(s) == [k \in 1..Len(s) |-> IF k = 1 THEN ToUpper(s)[k] ELSE s[k]]

Prefixes(s) == {SubSeq(s, 1, k) : k \in 0..Len(s)}

\* The names of the table in lower case, in upper case and capitalized,
\* their prefixes, each name with an `s` appended, fifteen times `a`, and
\* every name of at most MaxShortTag bytes over TagBytes.
TagInputs ==
  LET names == Range(kGumboTagNames) IN
  names \cup {ToUpper(s) : s \in names} \cup {Capitalized(s) : s \in names}
    \cup UNION {Prefixes(s) : s \in names}
    \cup {s \o <<115>> : s \in names}
    \cup {[k \in 1..15 |-> 97]}
    \cup SeqsUpTo(TagBytes, MaxShortTag)

InitTagOnly ==
  /\ InitCursor({<< >>}, {-1})
  /\ InitNoTree
  /\ InitNoAux
  /\ lookup_name \in TagInputs
  /\ lookup = NoLookup

\* gumbo_normalized_tagname(t) for a tag t of the enum.
NormalizedTagname ==
  /\ lookup.op = "init"
  /\ \E t \in 0..GUMBO_TAG_LAST :
       /\ lookup_name' = gumbo_normalized_tagname(t)
       /\ lookup' = [op |-> "gumbo_normalized_tagname", of |-> t,
                     length |-> Len(gumbo_normalized_tagname(t)),
                     result |-> NoTag]
  /\ UNCHANGED << cursorVars, treeVars, auxVars >>

\* gumbo_tag_enum() on the name gumbo_normalized_tagname returned.
TagEnum ==
  /\ lookup.op = "gumbo_normalized_tagname"
  /\ lookup' = [lookup EXCEPT !.op = "gumbo_tag_enum",
                              !.result = gumbo_tag_enum(lookup_name)]
  /\ UNCHANGED << lookup_name, cursorVars, treeVars, auxVars >>

\* gumbo_tagn_enum() on a name and its length.
TagnEnum ==
  /\ lookup.op = "init"
  /\ lookup' = [op |-> "gumbo_tagn_enum", of |-> NoTag,
                length |-> Len(lookup_name),
                result |-> gumbo_tagn_enum(lookup_name, Len(lookup_name))]
  /\ UNCHANGED << lookup_name, cursorVars, treeVars, auxVars >>

NextTag == NormalizedTagname \/ TagEnum \/ TagnEnum

SpecTag == InitTagOnly /\ [][NextTag]_vars

Sentinels == {GUMBO_TAG_UNKNOWN, GUMBO_TAG_LAST}

\* C19: for every tag t of the enum other than the sentinels,
\* gumbo_tag_enum(gumbo_normalized_tagname(t)) = t.
C19_TagNameRoundTrip ==
  (lookup.op = "gumbo_tag_enum" /\ lookup.of \notin Sentinels)
    => lookup.result = lookup.of

Lowercased(s) == [k \in 1..Len(s) |-> tolower(s[k])]

\* C20: gumbo_tagn_enum(s, n) is gumbo_tagn_enum of the ASCII-lowercased s,
\* and when it is not the unknown-tag sentinel it is a tag, no sentinel,
\* whose whole normalized name equals the n bytes of s ignoring ASCII case.
C20_ExactCaseInsensitive ==
  lookup.op = "gumbo_tagn_enum" =>
    /\ lookup.result
         = gumbo_tagn_enum(Lowercased(lookup_name), Len(lookup_name))
    /\ lookup.result # GUMBO_TAG_UNKNOWN =>
         /\ lookup.result \in (0..GUMBO_TAG_LAST) \ Sentinels
         /\ gumbo_normalized_tagname(lookup.result) = Lowercased(lookup_name)
---------------------------------------------------------------------------
(* The arena allocator: src/src/arena.c, lines 24-69.                      *)
(*                                                                         *)
(* The system allocator is modelled by `heap`: malloc() hands out a block   *)
(* that is not live, or fails with NULL; free() takes a block back and     *)
(* leaves its bytes as they were.  arena.c tests no malloc() result,   *)
(* so a NULL result is dereferenced and ends the process ("abort").        *)

ArenaMachine == [arenas |-> arenas, heap |-> heap, g |-> gChunksAllocated,
                 owned |-> owned]

SetArenaMachine(am) ==
  /\ arenas' = am.arenas
  /\ heap' = am.heap
  /\ gChunksAllocated' = am.g
  /\ owned' = am.owned

\* What malloc(sizeof(GumboArenaChunk)) can return: NULL, or a block that
\* is not live.  Blocks differ in nothing but their names, so the block is
\* the first one that is free, which is a freed block whenever there is one
\* below the blocks never used.
malloc(h) ==
  {c \in Chunks : h[c].state = "free"
                  /\ \A b \in Chunks : b < c => h[b].state = "live"}
    \cup {NULL}

\* arena_init() when malloc() returned the block c # NULL.
arena_init(am, p, c) ==
  [arenas |-> [am.arenas EXCEPT ![p] =
                 [head |-> c, allocation_ptr |-> [chunk |-> c, off |-> 0],
                  inits |-> am.arenas[p].inits + 1, destroys |-> 0]],
   heap |-> [am.heap EXCEPT ![c] = [state |-> "live", next |-> NULL]],
   g |-> 1,
   owned |-> [am.owned EXCEPT ![p] = << c >>]]

\* (size + ARENA_ALIGNMENT - 1) & ~(ARENA_ALIGNMENT - 1): the alignment is a
\* power of two, so the mask clears the remainder.
aligned_size(size) ==
  (size + ARENA_ALIGNMENT - 1)
    - ((size + ARENA_ALIGNMENT - 1) % ARENA_ALIGNMENT)

\* A pointer data + off that C lets the program form and compare.
PointerInChunk(off) == 0 <= off /\ off <= ARENA_CHUNK_SIZE

chunk_is_full_at_end(off, asize) == {off >= ARENA_CHUNK_SIZE}

\* The test of lines 49-50,
\*   allocation_ptr >= current_chunk->data + ARENA_CHUNK_SIZE - aligned_size,
\* as the set of its outcomes.  Comparing a pointer outside the chunk is
\* undefined: either outcome can be what the build produces.
chunk_is_full(off, asize) ==
  IF PointerInChunk(off) /\ PointerInChunk(ARENA_CHUNK_SIZE - asize)
  THEN {off >= ARENA_CHUNK_SIZE - asize}
  ELSE BOOLEAN

\* Lines 51-56: the new chunk c becomes the head of the list.
new_chunk(am, p, c) ==
  [arenas |-> [am.arenas EXCEPT ![p].head = c,
                                ![p].allocation_ptr = [chunk |-> c, off |-> 0]],
   heap |-> [am.heap EXCEPT ![c] =
               [state |-> "live", next |-> am.arenas[p].head]],
   g |-> am.g + 1,
   owned |-> [am.owned EXCEPT ![p] = Append(@, c)]]

\* Lines 58-60: the object is at the allocation pointer, which moves on.
bump(am, p, asize, is_new) ==
  [am |-> [am EXCEPT !.arenas[p].allocation_ptr.off = @ + asize],
   obj |-> am.arenas[p].allocation_ptr,
   new_chunk |-> is_new]

\* gumbo_arena_malloc() when the test of line 49 came out as `full` and
\* malloc(), if called, returned the block c # NULL.
gumbo_arena_malloc(am, p, size, full, c) ==
  IF full
  THEN bump(new_chunk(am, p, c), p, aligned_size(size), TRUE)
  ELSE bump(am, p, aligned_size(size), FALSE)

\* What a build does with a block that was freed before: its bytes are
\* still there ("stale"), or the access is caught ("trap").
HeapBuilds == {"stale", "trap"}

RECURSIVE destroy_walk(_, _, _, _, _, _, _)
\* The loop of arena_destroy(), lines 37-42, from `chunk` on.  `again` says
\* the arena was destroyed before; fuel bounds the walk of a list that
\* stale pointers closed into a ring.
destroy_walk(h, chunk, released, faults, again, build, fuel) ==
  IF chunk = NULL
  THEN [heap |-> h, released |-> released, faults |-> faults,
        aborted |-> FALSE]
  ELSE IF fuel = 0 \/ (h[chunk].state = "free" /\ build = "trap")
  THEN [heap |-> h, released |-> released,
        faults |-> faults \cup {"use_after_free"}, aborted |-> TRUE]
  ELSE destroy_walk(
         [h EXCEPT ![chunk].state = "free"], h[chunk].next,
         Append(released, chunk),
         faults \cup (IF h[chunk].state = "free"
                      THEN {"use_after_free", "double_free"}
                      ELSE IF again THEN {"foreign_free"} ELSE {}),
         again, build, fuel - 1)

arena_destroy_keep_head(am, p, build) ==
  LET w == destroy_walk(am.heap, am.heap[am.arenas[p].head].next, << >>, {},
                        am.arenas[p].destroys > 0, build, MaxChunks + 1)
  IN [am |-> [am EXCEPT !.heap = w.heap, !.arenas[p].destroys = @ + 1],
      released |-> w.released, faults |-> w.faults, aborted |-> w.aborted]

\* arena_destroy(): frees the list from arena->head on and leaves
\* arena->head as it was.
arena_destroy(am, p, build) ==
  LET w == destroy_walk(am.heap, am.arenas[p].head, << >>, {},
                        am.arenas[p].destroys > 0, build, MaxChunks + 1)
  IN [am |-> [am EXCEPT !.heap = w.heap, !.arenas[p].destroys = @ + 1],
      released |-> w.released, faults |-> w.faults, aborted |-> w.aborted]

\* gumbo_arena_chunks_allocated(): the counter, whichever arena is meant.
gumbo_arena_chunks_allocated(am) == am.g

\* arena_free(): a no-op.
arena_free(am, p, obj) == am

\* Request sizes: below and above a multiple of the alignment, the size of
\* a chunk and one byte more.
Sizes == {1, ARENA_ALIGNMENT + 1, ARENA_CHUNK_SIZE, ARENA_CHUNK_SIZE + 1}

ArenaReturned(op, p) ==
  [NoArenaRet EXCEPT !.op = op, !.parse = p, !.pre = arenas[p],
                     !.pre_heap = heap]

\* The process ending on a NULL malloc() result that is dereferenced.
ArenaAborts(op, p) ==
  /\ arena_ret' = [ArenaReturned("abort", p) EXCEPT !.faults = {"null"}]
  /\ UNCHANGED << arenas, heap, gChunksAllocated, owned, blocks >>

ArenaInit ==
  /\ arena_ret.op # "abort"
  /\ \E p \in Parses, c \in malloc(heap) :
       /\ arenas[p].inits = 0
       /\ IF c = NULL
          THEN ArenaAborts("arena_init", p)
          ELSE /\ SetArenaMachine(arena_init(ArenaMachine, p, c))
               /\ arena_ret' = [ArenaReturned("arena_init", p)
                                  EXCEPT !.new_chunk = TRUE]
               /\ blocks' = [blocks EXCEPT ![p] = {}]
  /\ UNCHANGED << cursorVars, treeVars, lookupVars, entity, caret,
                   string_buffer >>

ArenaMallocReturns(r, p, size, tracked) ==
  /\ SetArenaMachine(r.am)
  /\ arena_ret' = [ArenaReturned("gumbo_arena_malloc", p)
                     EXCEPT !.size = size, !.obj = r.obj,
                            !.new_chunk = r.new_chunk]
  /\ blocks' = IF tracked
               THEN [blocks EXCEPT ![p] =
                       @ \cup {[chunk |-> r.obj.chunk, off |-> r.obj.off,
                                size |-> size]}]
               ELSE blocks

\* gumbo_arena_malloc() of one of the sizes on the arena of a parse that is
\* under way; `tracked` says whether the history of blocks is kept.
ArenaMallocOf(sizes, tracked) ==
  /\ arena_ret.op # "abort"
  /\ \E p \in Parses, size \in sizes :
       /\ arenas[p].inits > 0 /\ arenas[p].destroys = 0
       /\ arenas[p].allocation_ptr.off <= ARENA_CHUNK_SIZE + ARENA_ALIGNMENT
       /\ \E full \in chunk_is_full(arenas[p].allocation_ptr.off,
                                    aligned_size(size)) :
            IF full
            THEN \E c \in malloc(heap) :
                   IF c = NULL
                   THEN ArenaAborts("gumbo_arena_malloc", p)
                   ELSE ArenaMallocReturns(
                          gumbo_arena_malloc(ArenaMachine, p, size, TRUE, c),
                          p, size, tracked)
            ELSE ArenaMallocReturns(
                   gumbo_arena_malloc(ArenaMachine, p, size, FALSE, NULL),
                   p, size, tracked)
  /\ UNCHANGED << cursorVars, treeVars, lookupVars, entity, caret,
                   string_buffer >>

ArenaMalloc == ArenaMallocOf(Sizes, FALSE)

\* gumbo_arena_malloc() of a size that is no larger than a chunk.
ArenaMallocSmall ==
  ArenaMallocOf({n \in Sizes : n <= ARENA_CHUNK_SIZE}, TRUE)

ArenaDestroyReturns(r, p) ==
  /\ SetArenaMachine(r.am)
  /\ arena_ret' = [ArenaReturned(IF r.aborted THEN "abort"
                                 ELSE "arena_destroy", p)
                     EXCEPT !.released = r.released, !.faults = r.faults]
  /\ blocks' = [blocks EXCEPT ![p] = {}]

\* arena_destroy(), as gumbo_destroy_output calls it on the arena of the
\* output when the parse is done with.
ArenaDestroy ==
  /\ arena_ret.op # "abort"
  /\ \E p \in Parses, build \in HeapBuilds :
       /\ arenas[p].inits > 0 /\ arenas[p].destroys = 0
       /\ ArenaDestroyReturns(arena_destroy(ArenaMachine, p, build), p)
  /\ UNCHANGED << cursorVars, treeVars, lookupVars, entity, caret,
                   string_buffer >>

\* arena_destroy() once more on an arena that was destroyed: a client
\* calling gumbo_destroy_output again on the same output.
ArenaDestroyAgain ==
  /\ arena_ret.op # "abort"
  /\ \E p \in Parses, build \in HeapBuilds :
       /\ arenas[p].destroys > 0 /\ arenas[p].destroys < MaxDestroys
       /\ ArenaDestroyReturns(arena_destroy(ArenaMachine, p, build), p)
  /\ UNCHANGED << cursorVars, treeVars, lookupVars, entity, caret,
                   string_buffer >>

\* gumbo_arena_chunks_allocated(), asked on behalf of a parse under way.
ArenaChunksAllocated ==
  /\ arena_ret.op # "abort"
  /\ \E p \in Parses :
       /\ arenas[p].inits > 0 /\ arenas[p].destroys = 0
       /\ arena_ret' = [ArenaReturned("gumbo_arena_chunks_allocated", p)
                          EXCEPT !.count =
                            gumbo_arena_chunks_allocated(ArenaMachine)]
  /\ UNCHANGED << arenas, heap, gChunksAllocated, owned, blocks >>
  /\ UNCHANGED << cursorVars, treeVars, lookupVars, entity, caret,
                   string_buffer >>

\* arena_free() on the object the last gumbo_arena_malloc returned.
ArenaFree ==
  /\ arena_ret.op = "gumbo_arena_malloc"
  /\ arenas[arena_ret.parse].destroys = 0
  /\ SetArenaMachine(arena_free(ArenaMachine, arena_ret.parse, arena_ret.obj))
  /\ arena_ret' = [arena_ret EXCEPT !.op = "arena_free",
                                    !.pre = arenas[arena_ret.parse],
                                    !.pre_heap = heap, !.count = gChunksAllocated]
  /\ UNCHANGED blocks
  /\ UNCHANGED << cursorVars, treeVars, lookupVars, entity, caret,
                   string_buffer >>

NextArena ==
  \/ ArenaInit
  \/ ArenaMalloc
  \/ ArenaDestroy
  \/ ArenaChunksAllocated
  \/ ArenaFree

InitArenaOnly ==
  /\ InitCursor({<< >>}, {-1})
  /\ InitNoTree
  /\ InitNoLookup
  /\ InitNoAux

\* Clients that destroy every output once.
SpecArena == InitArenaOnly /\ [][NextArena]_vars

NextArenaSmall == ArenaInit \/ ArenaMallocSmall \/ ArenaFree

\* Clients that ask for no more than a chunk at a time; the blocks handed
\* out are kept in `blocks`.
SpecArenaSmall == InitArenaOnly /\ [][NextArenaSmall]_vars

NextArenaAgain == NextArena \/ ArenaDestroyAgain

\* Clients that may destroy an output more than once.
SpecArenaAgain == InitArenaOnly /\ [][NextArenaAgain]_vars

---------------------------------------------------------------------------
(* Claims about the arena.                                                 *)

\* The last operation was the arena_destroy of a parse, made for the first
\* time on its arena, and it returned.
FirstDestroy ==
  arena_ret.op = "arena_destroy" /\ arena_ret.pre.destroys = 0

NoDuplicates(s) == \A i, j \in 1..Len(s) : s[i] = s[j] => i = j

\* C21: one arena_destroy passes to free() every chunk the arena obtained
\* since arena_init, each of them once: none is left live and none is
\* freed twice within the call, whatever allocations came before.
C21_DestroyReleasesAll ==
  FirstDestroy =>
    /\ NoDuplicates(arena_ret.released)
    /\ Range(arena_ret.released) = Range(owned[arena_ret.parse])
    /\ \A c \in Range(owned[arena_ret.parse]) :
         /\ arena_ret.pre_heap[c].state = "live"
         /\ heap[c].state = "free"
    /\ arena_ret.faults = {}

\* A destroy of an arena that grew by two chunks after arena_init.
C21_Witness ==
  /\ FirstDestroy
  /\ Len(owned[arena_ret.parse]) = 3
  /\ Len(arena_ret.released) = 3

\* The last operation was an arena_destroy on an arena destroyed before,
\* whether it returned or the build caught its first access.
DestroyedAgain ==
  /\ arena_ret.op \in {"arena_destroy", "abort"}
  /\ arena_ret.pre.inits > 0
  /\ arena_ret.pre.destroys > 0

\* C22: destroying the same arena a second time has no further effect: it
\* passes nothing to free(), reads no chunk the first call released, and
\* leaves every block of the allocator as it was.
C22_DestroyIdempotent ==
  DestroyedAgain =>
    /\ arena_ret.released = << >>
    /\ arena_ret.faults = {}
    /\ heap = arena_ret.pre_heap

\* C23: parses that each use their own arena do not interfere when their
\* operations interleave: the chunk count reported to a parse is the count
\* of its own arena, the number of chunks it obtained since its arena_init,
\* which is what it is told when it runs alone.
C23_ParsesIndependent ==
  arena_ret.op = "gumbo_arena_chunks_allocated" =>
    arena_ret.count = Len(owned[arena_ret.parse])

\* The last operation was a gumbo_arena_malloc that returned.
Allocated == arena_ret.op = "gumbo_arena_malloc"

\* n rounded up to the alignment: the least multiple of it that is >= n.
RoundedUp(n) ==
  CHOOSE r \in n..(n + ARENA_ALIGNMENT) :
    /\ r % ARENA_ALIGNMENT = 0
    /\ \A q \in n..(r - 1) : q % ARENA_ALIGNMENT # 0

\* Bytes left in the current chunk before the last allocation.
Remaining == ARENA_CHUNK_SIZE - arena_ret.pre.allocation_ptr.off

FitsCurrentChunk == RoundedUp(arena_ret.size) <= Remaining

\* The allocation was served at the cursor of the chunk that was current.
ServedAtCursor ==
  /\ ~arena_ret.new_chunk
  /\ arena_ret.obj = arena_ret.pre.allocation_ptr
  /\ arenas[arena_ret.parse].head = arena_ret.pre.head
  /\ arenas[arena_ret.parse].allocation_ptr =
       [chunk |-> arena_ret.obj.chunk,
        off |-> arena_ret.obj.off + RoundedUp(arena_ret.size)]

\* C29: gumbo_arena_malloc(n) rounds n up to the alignment; whenever the
\* rounded size is no larger than the space left in the current chunk, an
\* exact fit included, it returns the cursor and advances it by the rounded
\* size without a new chunk; a new chunk is obtained only when the rounded
\* size does not fit.
C29_FitsInCurrentChunk ==
  (Allocated /\ Remaining >= 0) =>
    /\ arenas[arena_ret.parse].allocation_ptr.off =
         arena_ret.obj.off + RoundedUp(arena_ret.size)
    /\ FitsCurrentChunk => ServedAtCursor
    /\ arena_ret.new_chunk => ~FitsCurrentChunk

\* The bytes of the block an allocation returned lie in a chunk the arena
\* obtained, which holds ARENA_CHUNK_SIZE bytes of data.
BlockInsideArena ==
  /\ arena_ret.obj.chunk \in Range(owned[arena_ret.parse])
  /\ arena_ret.obj.off >= 0
  /\ arena_ret.obj.off + arena_ret.size <= ARENA_CHUNK_SIZE

\* C30: a request larger than a chunk is served from a chunk of its own
\* that is linked into the list: the block returned holds the request and
\* lies wholly inside memory the arena owns, and the chunk that was current
\* stays current, with its cursor where it was.
C30_OversizeRequest ==
  (Allocated /\ Remaining >= 0 /\ arena_ret.size > ARENA_CHUNK_SIZE) =>
    /\ BlockInsideArena
    /\ arenas[arena_ret.parse].allocation_ptr = arena_ret.pre.allocation_ptr

---------------------------------------------------------------------------
(* Lookahead on the cursor: utf8iterator_maybe_consume_match, mark and     *)
(* reset (src/src/utf8.c, lines 351-377).                                  *)

MaxLookaheadLen == 3   \* bytes of an input drawn from LookaheadBytes

\* LF, CR, `-`, `D`, `d`, and the first byte of a two-byte sequence.
LookaheadBytes == {CH_LF, CH_CR, 45, 68, 100, 195}

LookaheadInputs == SeqsUpTo(LookaheadBytes, MaxLookaheadLen)

\* Prefixes as the callers pass them, ASCII text without line breaks: the
\* `--` of a comment and the first letter of `doctype`.
LookaheadPrefixes == {<<45, 45>>, <<100>>}

\* strncasecmp(iter->_start, prefix, length) == 0 for a prefix without NUL.
PrefixMatchesNoCase(m, prefix, length) ==
  /\ m.it.start + length <= end
  /\ \A i \in 1..length : tolower(input[m.it.start + i]) = tolower(prefix[i])

maybe_consume_match_short(m, prefix, length, case_sensitive) ==
  IF (IF case_sensitive THEN PrefixMatches(m, prefix, length)
      ELSE PrefixMatchesNoCase(m, prefix, length))
    THEN [m |-> NextTimes(m, length - 1), matched |-> TRUE]
    ELSE [m |-> m, matched |-> FALSE]

\* utf8iterator_maybe_consume_match() with its case_sensitive flag.
maybe_consume_match(m, prefix, length, case_sensitive) ==
  IF case_sensitive
    THEN utf8iterator_maybe_consume_match(m, prefix, length)
  ELSE IF PrefixMatchesNoCase(m, prefix, length)
    THEN [m |-> NextTimes(m, length), matched |-> TRUE]
    ELSE [m |-> m, matched |-> FALSE]

\* utf8iterator_mark()
Mark ==
  /\ SetMachine(utf8iterator_mark(Machine))
  /\ marked' = [made |-> TRUE, it |-> utf8iterator_mark(Machine).it]
  /\ ret' = Returned("mark", FALSE, kGumboNoChar, NoOutput, TRUE)
  /\ UNCHANGED << input, options, token_start, node_text >>
  /\ UNCHANGED << treeVars, lookupVars, auxVars >>

\* utf8iterator_reset(), after a mark was set.  Every reset reads the
\* character at the mark again and may record its diagnostic again; the
\* number of diagnostics raised bounds the resets.
Reset ==
  /\ marked.made
  /\ raised < MaxLookaheadLen
  /\ SetMachine(utf8iterator_reset(Machine))
  /\ ret' = Returned("reset", FALSE, kGumboNoChar, NoOutput, TRUE)
  /\ UNCHANGED << input, options, token_start, node_text, marked >>
  /\ UNCHANGED << treeVars, lookupVars, auxVars >>

MatchReturns(r, prefix, case_sensitive) ==
  /\ SetMachine(r.m)
  /\ ret' = Returned("maybe_consume_match", FALSE, kGumboNoChar, NoOutput,
                     r.matched)
              @@ [prefix |-> prefix, case_sensitive |-> case_sensitive]

\* utf8iterator_maybe_consume_match()
MaybeConsumeMatch ==
  /\ \E prefix \in LookaheadPrefixes, case_sensitive \in BOOLEAN :
       MatchReturns(maybe_consume_match(Machine, prefix, Len(prefix),
                                        case_sensitive),
                    prefix, case_sensitive)
  /\ UNCHANGED << input, options, token_start, node_text, marked >>
  /\ UNCHANGED << treeVars, lookupVars, auxVars >>

NextLookahead == Advance \/ Mark \/ Reset \/ MaybeConsumeMatch

InitLookahead ==
  /\ InitCursor(LookaheadInputs, {-1})
  /\ InitNoTree
  /\ InitNoLookup
  /\ InitNoAux

SpecLookahead == InitLookahead /\ [][NextLookahead]_vars

\* The last operation was a lookahead for ret.prefix.
LookedAhead == ret.op = "maybe_consume_match"

\* The bytes at the cursor before the lookahead were those of the prefix,
\* compared as the flag says.
BytesMatch ==
  /\ ret.pre.start + Len(ret.prefix) <= InputEnd
  /\ \A i \in 1..Len(ret.prefix) :
       IF ret.case_sensitive
       THEN ByteAt(ret.pre.start + i - 1) = ret.prefix[i]
       ELSE Lowercased(<<ByteAt(ret.pre.start + i - 1)>>)
              = Lowercased(<<ret.prefix[i]>>)

\* A failed lookahead returns false and leaves the cursor and the
\* diagnostics as they were.
FailedLookaheadKeepsCursor ==
  (LookedAhead /\ ~BytesMatch) =>
    /\ ~ret.status
    /\ iter = ret.pre
    /\ Len(errors) = ret.pre_errs

C28_ResetRestoresMark ==
  ret.op = "reset" =>
    /\ iter.start = marked.it.start
    /\ iter.current = marked.it.current
    /\ iter.width = marked.it.width
    /\ iter.pos = marked.it.pos

\* A reset that took the cursor back over a line break to a mark that was
\* not at the start of the input.
C28_Witness ==
  /\ ret.op = "reset"
  /\ marked.it.start > 0
  /\ ret.pre.start > marked.it.start
  /\ ret.pre.pos.line > marked.it.pos.line
  /\ iter.start = marked.it.start

---------------------------------------------------------------------------
(* The caret diagnostic: find_last_newline, find_next_newline and          *)
(* gumbo_caret_diagnostic_to_string (src/src/error.c, lines 129-245).      *)
(* source_text is the input followed by its NUL; pointers into it are      *)
(* offsets from its first byte.                                            *)

MaxCaretLen == 3   \* bytes of a source text drawn from CaretBytes

\* LF, `<` and `a`: a source text holds no NUL before its end.
CaretBytes == {CH_LF, CH_LT, 97}

CaretInputs == SeqsUpTo(CaretBytes, MaxCaretLen)

\* *c for a pointer c into the NUL-terminated source text.
TextByte(c) == IF c < Len(input) THEN input[c + 1] ELSE 0

RECURSIVE find_last_newline_from(_, _)
\* The loop of find_last_newline with the pointer at c, and its return.
find_last_newline_from(c, error_location) ==
  IF c # 0 /\ TextByte(c) # CH_LF
  THEN IF TextByte(c) = 0 /\ c # error_location
       THEN [c |-> c, asserted |-> TRUE]
       ELSE find_last_newline_from(c - 1, error_location)
  ELSE [c |-> IF c = 0 THEN c ELSE c + 1, asserted |-> FALSE]

find_last_newline(error_location) ==
  find_last_newline_from(error_location, error_location)

RECURSIVE find_next_newline(_)
find_next_newline(c) ==
  IF TextByte(c) # 0 /\ TextByte(c) # CH_LF
  THEN find_next_newline(c + 1)
  ELSE c

\* What gumbo_caret_diagnostic_to_string computes from the line start s
\* and the line end e; `length` is line_end - line_start before it is
\* stored in the size_t original_line.length.
caret_line(error, s, e) ==
  [op |-> "gumbo_caret_diagnostic_to_string",
   original_text |-> error.original_text,
   column |-> error.position.column,
   line_start |-> s.c, line_end |-> e, length |-> e - s.c,
   num_spaces |-> error.position.column - 1,
   asserted |-> s.asserted]

gumbo_caret_diagnostic_to_string(error) ==
  caret_line(error, find_last_newline(error.original_text),
             find_next_newline(error.original_text))

\* gumbo_caret_diagnostic_to_string() for an error recorded at the cursor:
\* a GumboError takes its position and original_text from the iterator
\* at the time it is recorded.
CaretDiagnostic ==
  /\ caret' = gumbo_caret_diagnostic_to_string(
                [position |-> iter.pos, original_text |-> iter.start])
  /\ UNCHANGED << cursorVars, treeVars, lookupVars, arenaVars, entity,
                   string_buffer >>

NextCaret == Advance \/ CaretDiagnostic

InitCaret ==
  /\ InitCursor(CaretInputs, {-1})
  /\ InitNoTree
  /\ InitNoLookup
  /\ InitNoAux

SpecCaret == InitCaret /\ [][NextCaret]_vars

\* C26: for an error whose original_text lies within the NUL-terminated
\* source text, an error on a newline included, the caret diagnostic
\* completes without a failed assertion and quotes a well-formed line:
\* line_start <= error location <= line_end, no newline in the line, and
\* column - 1 spaces before the caret.
C26_CaretLineWellFormed ==
  caret.op = "gumbo_caret_diagnostic_to_string" =>
    /\ ~caret.asserted
    /\ caret.line_start <= caret.original_text
    /\ caret.original_text <= caret.line_end
    /\ \A c \in caret.line_start..(caret.line_end - 1) : TextByte(c) # CH_LF
    /\ caret.num_spaces = caret.column - 1
    /\ caret.num_spaces >= 0

---------------------------------------------------------------------------
(* The table kNamedEntities (src/src/arena.c, lines 138-2371), in source    *)
(* order: the bytes of the name and the two code points of the entry; the  *)
(* last entry is the terminator with the empty name.                       *)

kNamedEntities ==
  <<
  [name |-> <<65,69,108,105,103>>, first |-> 198, second |-> -1], \* 'AElig'
  [name |-> <<65,77,80,59>>, first |-> 38, second |-> -1], \* 'AMP;'
  [name |-> <<65,77,80>>, first |-> 38, second |-> -1], \* 'AMP'
  [name |-> <<65,97,99,117,116,101,59>>, first |-> 193, second |-> -1], \* 'Aacute;'
  [name |-> <<65,97,99,117,116,101>>, first |-> 193, second |-> -1], \* 'Aacute'
  [name |-> <<65,98,114,101,118,101,59>>, first |-> 258, second |-> -1], \* 'Abreve;'
  [name |-> <<65,99,105,114,99,59>>, first |-> 194, second |-> -1], \* 'Acirc;'
  [name |-> <<65,99,105,114,99>>, first |-> 194, second |-> -1], \* 'Acirc'
  [name |-> <<65,99,121,59>>, first |-> 1040, second |-> -1], \* 'Acy;'
  [name |-> <<65,102,114,59>>, first |-> 120068, second |-> -1], \* 'Afr;'
  [name |-> <<65,103,114,97,118,101,59>>, first |-> 192, second |-> -1], \* 'Agrave;'
  [name |-> <<65,103,114,97,118,101>>, first |-> 192, second |-> -1], \* 'Agrave'
  [name |-> <<65,108,112,104,97,59>>, first |-> 913, second |-> -1], \* 'Alpha;'
  [name |-> <<65,109,97,99,114,59>>, first |-> 256, second |-> -1], \* 'Amacr;'
  [name |-> <<65,110,100,59>>, first |-> 10835, second |-> -1], \* 'And;'
  [name |-> <<65,111,103,111,110,59>>, first |-> 260, second |-> -1], \* 'Aogon;'
  [name |-> <<65,111,112,102,59>>, first |-> 120120, second |-> -1], \* 'Aopf;'
  [name |-> <<65,112,112,108,121,70,117,110,99,116,105,111,110,59>>, first |-> 8289, second |-> -1], \* 'ApplyFunction;'
  [name |-> <<65,114,105,110,103,59>>, first |-> 197, second |-> -1], \* 'Aring;'
  [name |-> <<65,114,105,110,103>>, first |-> 197, second |-> -1], \* 'Aring'
  [name |-> <<65,115,99,114,59>>, first |-> 119964, second |-> -1], \* 'Ascr;'
  [name |-> <<65,115,115,105,103,110,59>>, first |-> 8788, second |-> -1], \* 'Assign;'
  [name |-> <<65,116,105,108,100,101,59>>, first |-> 195, second |-> -1], \* 'Atilde;'
  [name |-> <<65,116,105,108,100,101>>, first |-> 195, second |-> -1], \* 'Atilde'
  [name |-> <<65,117,109,108,59>>, first |-> 196, second |-> -1], \* 'Auml;'
  [name |-> <<65,117,109,108>>, first |-> 196, second |-> -1], \* 'Auml'
  [name |-> <<66,97,99,107,115,108,97,115,104,59>>, first |-> 8726, second |-> -1], \* 'Backslash;'
  [name |-> <<66,97,114,118,59>>, first |-> 10983, second |-> -1], \* 'Barv;'
  [name |-> <<66,97,114,119,101,100,59>>, first |-> 8966, second |-> -1], \* 'Barwed;'
  [name |-> <<66,99,121,59>>, first |-> 1041, second |-> -1], \* 'Bcy;'
  [name |-> <<66,101,99,97,117,115,101,59>>, first |-> 8757, second |-> -1], \* 'Because;'
  [name |-> <<66,101,114,110,111,117,108,108,105,115,59>>, first |-> 8492, second |-> -1], \* 'Bernoullis;'
  [name |-> <<66,101,116,97,59>>, first |-> 914, second |-> -1], \* 'Beta;'
  [name |-> <<66,102,114,59>>, first |-> 120069, second |-> -1], \* 'Bfr;'
  [name |-> <<66,111,112,102,59>>, first |-> 120121, second |-> -1], \* 'Bopf;'
  [name |-> <<66,114,101,118,101,59>>, first |-> 728, second |-> -1], \* 'Breve;'
  [name |-> <<66,115,99,114,59>>, first |-> 8492, second |-> -1], \* 'Bscr;'
  [name |-> <<66,117,109,112,101,113,59>>, first |-> 8782, second |-> -1], \* 'Bumpeq;'
  [name |-> <<67,72,99,121,59>>, first |-> 1063, second |-> -1], \* 'CHcy;'
  [name |-> <<67,79,80,89,59>>, first |-> 169, second |-> -1], \* 'COPY;'
  [name |-> <<67,79,80,89>>, first |-> 169, second |-> -1], \* 'COPY'
  [name |-> <<67,97,99,117,116,101,59>>, first |-> 262, second |-> -1], \* 'Cacute;'
  [name |-> <<67,97,112,59>>, first |-> 8914, second |-> -1], \* 'Cap;'
  [name |-> <<67,97,112,105,116,97,108,68,105,102,102,101,114,101,110,116,105,97,108,68,59>>, first |-> 8517, second |-> -1], \* 'CapitalDifferentialD;'
  [name |-> <<67,97,121,108,101,121,115,59>>, first |-> 8493, second |-> -1], \* 'Cayleys;'
  [name |-> <<67,99,97,114,111,110,59>>, first |-> 268, second |-> -1], \* 'Ccaron;'
  [name |-> <<67,99,101,100,105,108,59>>, first |-> 199, second |-> -1], \* 'Ccedil;'
  [name |-> <<67,99,101,100,105,108>>, first |-> 199, second |-> -1], \* 'Ccedil'
  [name |-> <<67,99,105,114,99,59>>, first |-> 264, second |-> -1], \* 'Ccirc;'
  [name |-> <<67,99,111,110,105,110,116,59>>, first |-> 8752, second |-> -1], \* 'Cconint;'
  [name |-> <<67,100,111,116,59>>, first |-> 266, second |-> -1], \* 'Cdot;'
  [name |-> <<67,101,100,105,108,108,97,59>>, first |-> 184, second |-> -1], \* 'Cedilla;'
  [name |-> <<67,101,110,116,101,114,68,111,116,59>>, first |-> 183, second |-> -1], \* 'CenterDot;'
  [name |-> <<67,102,114,59>>, first |-> 8493, second |-> -1], \* 'Cfr;'
  [name |-> <<67,104,105,59>>, first |-> 935, second |-> -1], \* 'Chi;'
  [name |-> <<67,105,114,99,108,101,68,111,116,59>>, first |-> 8857, second |-> -1], \* 'CircleDot;'
  [name |-> <<67,105,114,99,108,101,77,105,110,117,115,59>>, first |-> 8854, second |-> -1], \* 'CircleMinus;'
  [name |-> <<67,105,114,99,108,101,80,108,117,115,59>>, first |-> 8853, second |-> -1], \* 'CirclePlus;'
  [name |-> <<67,105,114,99,108,101,84,105,109,101,115,59>>, first |-> 8855, second |-> -1], \* 'CircleTimes;'
  [name |-> <<67,108,111,99,107,119,105,115,101,67,111,110,116,111,117,114,73,110,116,101,103,114,97,108,59>>, first |-> 8754, second |-> -1], \* 'ClockwiseContourIntegral;'
  [name |-> <<67,108,111,115,101,67,117,114,108,121,68,111,117,98,108,101,81,117,111,116,101,59>>, first |-> 8221, second |-> -1], \* 'CloseCurlyDoubleQuote;'
  [name |-> <<67,108,111,115,101,67,117,114,108,121,81,117,111,116,101,59>>, first |-> 8217, second |-> -1], \* 'CloseCurlyQuote;'
  [name |-> <<67,111,108,111,110,59>>, first |-> 8759, second |-> -1], \* 'Colon;'
  [name |-> <<67,111,108,111,110,101,59>>, first |-> 10868, second |-> -1], \* 'Colone;'
  [name |-> <<67,111,110,103,114,117,101,110,116,59>>, first |-> 8801, second |-> -1], \* 'Congruent;'
  [name |-> <<67,111,110,105,110,116,59>>, first |-> 8751, second |-> -1], \* 'Conint;'
  [name |-> <<67,111,110,116,111,117,114,73,110,116,101,103,114,97,108,59>>, first |-> 8750, second |-> -1], \* 'ContourIntegral;'
  [name |-> <<67,111,112,102,59>>, first |-> 8450, second |-> -1], \* 'Copf;'
  [name |-> <<67,111,112,114,111,100,117,99,116,59>>, first |-> 8720, second |-> -1], \* 'Coproduct;'
  [name |-> <<67,111,117,110,116,101,114,67,108,111,99,107,119,105,115,101,67,111,110,116,111,117,114,73,110,116,101,103,114,97,108,59>>, first |-> 8755, second |-> -1], \* 'CounterClockwiseContourIntegral;'
  [name |-> <<67,114,111,115,115,59>>, first |-> 10799, second |-> -1], \* 'Cross;'
  [name |-> <<67,115,99,114,59>>, first |-> 119966, second |-> -1], \* 'Cscr;'
  [name |-> <<67,117,112,59>>, first |-> 8915, second |-> -1], \* 'Cup;'
  [name |-> <<67,117,112,67,97,112,59>>, first |-> 8781, second |-> -1], \* 'CupCap;'
  [name |-> <<68,68,59>>, first |-> 8517, second |-> -1], \* 'DD;'
  [name |-> <<68,68,111,116,114,97,104,100,59>>, first |-> 10513, second |-> -1], \* 'DDotrahd;'
  [name |-> <<68,74,99,121,59>>, first |-> 1026, second |-> -1], \* 'DJcy;'
  [name |-> <<68,83,99,121,59>>, first |-> 1029, second |-> -1], \* 'DScy;'
  [name |-> <<68,90,99,121,59>>, first |-> 1039, second |-> -1], \* 'DZcy;'
  [name |-> <<68,97,103,103,101,114,59>>, first |-> 8225, second |-> -1], \* 'Dagger;'
  [name |-> <<68,97,114,114,59>>, first |-> 8609, second |-> -1], \* 'Darr;'
  [name |-> <<68,97,115,104,118,59>>, first |-> 10980, second |-> -1], \* 'Dashv;'
  [name |-> <<68,99,97,114,111,110,59>>, first |-> 270, second |-> -1], \* 'Dcaron;'
  [name |-> <<68,99,121,59>>, first |-> 1044, second |-> -1], \* 'Dcy;'
  [name |-> <<68,101,108,59>>, first |-> 8711, second |-> -1], \* 'Del;'
  [name |-> <<68,101,108,116,97,59>>, first |-> 916, second |-> -1], \* 'Delta;'
  [name |-> <<68,102,114,59>>, first |-> 120071, second |-> -1], \* 'Dfr;'
  [name |-> <<68,105,97,99,114,105,116,105,99,97,108,65,99,117,116,101,59>>, first |-> 180, second |-> -1], \* 'DiacriticalAcute;'
  [name |-> <<68,105,97,99,114,105,116,105,99,97,108,68,111,116,59>>, first |-> 729, second |-> -1], \* 'DiacriticalDot;'
  [name |-> <<68,105,97,99,114,105,116,105,99,97,108,68,111,117,98,108,101,65,99,117,116,101,59>>, first |-> 733, second |-> -1], \* 'DiacriticalDoubleAcute;'
  [name |-> <<68,105,97,99,114,105,116,105,99,97,108,71,114,97,118,101,59>>, first |-> 96, second |-> -1], \* 'DiacriticalGrave;'
  [name |-> <<68,105,97,99,114,105,116,105,99,97,108,84,105,108,100,101,59>>, first |-> 732, second |-> -1], \* 'DiacriticalTilde;'
  [name |-> <<68,105,97,109,111,110,100,59>>, first |-> 8900, second |-> -1], \* 'Diamond;'
  [name |-> <<68,105,102,102,101,114,101,110,116,105,97,108,68,59>>, first |-> 8518, second |-> -1], \* 'DifferentialD;'
  [name |-> <<68,111,112,102,59>>, first |-> 120123, second |-> -1], \* 'Dopf;'
  [name |-> <<68,111,116,59>>, first |-> 168, second |-> -1], \* 'Dot;'
  [name |-> <<68,111,116,68,111,116,59>>, first |-> 8412, second |-> -1], \* 'DotDot;'
  [name |-> <<68,111,116,69,113,117,97,108,59>>, first |-> 8784, second |-> -1], \* 'DotEqual;'
  [name |-> <<68,111,117,98,108,101,67,111,110,116,111,117,114,73,110,116,101,103,114,97,108,59>>, first |-> 8751, second |-> -1], \* 'DoubleContourIntegral;'
  [name |-> <<68,111,117,98,108,101,68,111,116,59>>, first |-> 168, second |-> -1], \* 'DoubleDot;'
  [name |-> <<68,111,117,98,108,101,68,111,119,110,65,114,114,111,119,59>>, first |-> 8659, second |-> -1], \* 'DoubleDownArrow;'
  [name |-> <<68,111,117,98,108,101,76,101,102,116,65,114,114,111,119,59>>, first |-> 8656, second |-> -1], \* 'DoubleLeftArrow;'
  [name |-> <<68,111,117,98,108,101,76,101,102,116,82,105,103,104,116,65,114,114,111,119,59>>, first |-> 8660, second |-> -1], \* 'DoubleLeftRightArrow;'
  [name |-> <<68,111,117,98,108,101,76,101,102,116,84,101,101,59>>, first |-> 10980, second |-> -1], \* 'DoubleLeftTee;'
  [name |-> <<68,111,117,98,108,101,76,111,110,103,76,101,102,116,65,114,114,111,119,59>>, first |-> 10232, second |-> -1], \* 'DoubleLongLeftArrow;'
  [name |-> <<68,111,117,98,108,101,76,111,110,103,76,101,102,116,82,105,103,104,116,65,114,114,111,119,59>>, first |-> 10234, second |-> -1], \* 'DoubleLongLeftRightArrow;'
  [name |-> <<68,111,117,98,108,101,76,111,110,103,82,105,103,104,116,65,114,114,111,119,59>>, first |-> 10233, second |-> -1], \* 'DoubleLongRightArrow;'
  [name |-> <<68,111,117,98,108,101,82,105,103,104,116,65,114,114,111,119,59>>, first |-> 8658, second |-> -1], \* 'DoubleRightArrow;'
  [name |-> <<68,111,117,98,108,101,82,105,103,104,116,84,101,101,59>>, first |-> 8872, second |-> -1], \* 'DoubleRightTee;'
  [name |-> <<68,111,117,98,108,101,85,112,65,114,114,111,119,59>>, first |-> 8657, second |-> -1], \* 'DoubleUpArrow;'
  [name |-> <<68,111,117,98,108,101,85,112,68,111,119,110,65,114,114,111,119,59>>, first |-> 8661, second |-> -1], \* 'DoubleUpDownArrow;'
  [name |-> <<68,111,117,98,108,101,86,101,114,116,105,99,97,108,66,97,114,59>>, first |-> 8741, second |-> -1], \* 'DoubleVerticalBar;'
  [name |-> <<68,111,119,110,65,114,114,111,119,59>>, first |-> 8595, second |-> -1], \* 'DownArrow;'
  [name |-> <<68,111,119,110,65,114,114,111,119,66,97,114,59>>, first |-> 10515, second |-> -1], \* 'DownArrowBar;'
  [name |-> <<68,111,119,110,65,114,114,111,119,85,112,65,114,114,111,119,59>>, first |-> 8693, second |-> -1], \* 'DownArrowUpArrow;'
  [name |-> <<68,111,119,110,66,114,101,118,101,59>>, first |-> 785, second |-> -1], \* 'DownBreve;'
  [name |-> <<68,111,119,110,76,101,102,116,82,105,103,104,116,86,101,99,116,111,114,59>>, first |-> 10576, second |-> -1], \* 'DownLeftRightVector;'
  [name |-> <<68,111,119,110,76,101,102,116,84,101,101,86,101,99,116,111,114,59>>, first |-> 10590, second |-> -1], \* 'DownLeftTeeVector;'
  [name |-> <<68,111,119,110,76,101,102,116,86,101,99,116,111,114,59>>, first |-> 8637, second |-> -1], \* 'DownLeftVector;'
  [name |-> <<68,111,119,110,76,101,102,116,86,101,99,116,111,114,66,97,114,59>>, first |-> 10582, second |-> -1], \* 'DownLeftVectorBar;'
  [name |-> <<68,111,119,110,82,105,103,104,116,84,101,101,86,101,99,116,111,114,59>>, first |-> 10591, second |-> -1], \* 'DownRightTeeVector;'
  [name |-> <<68,111,119,110,82,105,103,104,116,86,101,99,116,111,114,59>>, first |-> 8641, second |-> -1], \* 'DownRightVector;'
  [name |-> <<68,111,119,110,82,105,103,104,116,86,101,99,116,111,114,66,97,114,59>>, first |-> 10583, second |-> -1], \* 'DownRightVectorBar;'
  [name |-> <<68,111,119,110,84,101,101,59>>, first |-> 8868, second |-> -1], \* 'DownTee;'
  [name |-> <<68,111,119,110,84,101,101,65,114,114,111,119,59>>, first |-> 8615, second |-> -1], \* 'DownTeeArrow;'
  [name |-> <<68,111,119,110,97,114,114,111,119,59>>, first |-> 8659, second |-> -1], \* 'Downarrow;'
  [name |-> <<68,115,99,114,59>>, first |-> 119967, second |-> -1], \* 'Dscr;'
  [name |-> <<68,115,116,114,111,107,59>>, first |-> 272, second |-> -1], \* 'Dstrok;'
  [name |-> <<69,78,71,59>>, first |-> 330, second |-> -1], \* 'ENG;'
  [name |-> <<69,84,72,59>>, first |-> 208, second |-> -1], \* 'ETH;'
  [name |-> <<69,84,72>>, first |-> 208, second |-> -1], \* 'ETH'
  [name |-> <<69,97,99,117,116,101,59>>, first |-> 201, second |-> -1], \* 'Eacute;'
  [name |-> <<69,97,99,117,116,101>>, first |-> 201, second |-> -1], \* 'Eacute'
  [name |-> <<69,99,97,114,111,110,59>>, first |-> 282, second |-> -1], \* 'Ecaron;'
  [name |-> <<69,99,105,114,99,59>>, first |-> 202, second |-> -1], \* 'Ecirc;'
  [name |-> <<69,99,105,114,99>>, first |-> 202, second |-> -1], \* 'Ecirc'
  [name |-> <<69,99,121,59>>, first |-> 1069, second |-> -1], \* 'Ecy;'
  [name |-> <<69,100,111,116,59>>, first |-> 278, second |-> -1], \* 'Edot;'
  [name |-> <<69,102,114,59>>, first |-> 120072, second |-> -1], \* 'Efr;'
  [name |-> <<69,103,114,97,118,101,59>>, first |-> 200, second |-> -1], \* 'Egrave;'
  [name |-> <<69,103,114,97,118,101>>, first |-> 200, second |-> -1], \* 'Egrave'
  [name |-> <<69,108,101,109,101,110,116,59>>, first |-> 8712, second |-> -1], \* 'Element;'
  [name |-> <<69,109,97,99,114,59>>, first |-> 274, second |-> -1], \* 'Emacr;'
  [name |-> <<69,109,112,116,121,83,109,97,108,108,83,113,117,97,114,101,59>>, first |-> 9723, second |-> -1], \* 'EmptySmallSquare;'
  [name |-> <<69,109,112,116,121,86,101,114,121,83,109,97,108,108,83,113,117,97,114,101,59>>, first |-> 9643, second |-> -1], \* 'EmptyVerySmallSquare;'
  [name |-> <<69,111,103,111,110,59>>, first |-> 280, second |-> -1], \* 'Eogon;'
  [name |-> <<69,111,112,102,59>>, first |-> 120124, second |-> -1], \* 'Eopf;'
  [name |-> <<69,112,115,105,108,111,110,59>>, first |-> 917, second |-> -1], \* 'Epsilon;'
  [name |-> <<69,113,117,97,108,59>>, first |-> 10869, second |-> -1], \* 'Equal;'
  [name |-> <<69,113,117,97,108,84,105,108,100,101,59>>, first |-> 8770, second |-> -1], \* 'EqualTilde;'
  [name |-> <<69,113,117,105,108,105,98,114,105,117,109,59>>, first |-> 8652, second |-> -1], \* 'Equilibrium;'
  [name |-> <<69,115,99,114,59>>, first |-> 8496, second |-> -1], \* 'Escr;'
  [name |-> <<69,115,105,109,59>>, first |-> 10867, second |-> -1], \* 'Esim;'
  [name |-> <<69,116,97,59>>, first |-> 919, second |-> -1], \* 'Eta;'
  [name |-> <<69,117,109,108,59>>, first |-> 203, second |-> -1], \* 'Euml;'
  [name |-> <<69,117,109,108>>, first |-> 203, second |-> -1], \* 'Euml'
  [name |-> <<69,120,105,115,116,115,59>>, first |-> 8707, second |-> -1], \* 'Exists;'
  [name |-> <<69,120,112,111,110,101,110,116,105,97,108,69,59>>, first |-> 8519, second |-> -1], \* 'ExponentialE;'
  [name |-> <<70,99,121,59>>, first |-> 1060, second |-> -1], \* 'Fcy;'
  [name |-> <<70,102,114,59>>, first |-> 120073, second |-> -1], \* 'Ffr;'
  [name |-> <<70,105,108,108,101,100,83,109,97,108,108,83,113,117,97,114,101,59>>, first |-> 9724, second |-> -1], \* 'FilledSmallSquare;'
  [name |-> <<70,105,108,108,101,100,86,101,114,121,83,109,97,108,108,83,113,117,97,114,101,59>>, first |-> 9642, second |-> -1], \* 'FilledVerySmallSquare;'
  [name |-> <<70,111,112,102,59>>, first |-> 120125, second |-> -1], \* 'Fopf;'
  [name |-> <<70,111,114,65,108,108,59>>, first |-> 8704, second |-> -1], \* 'ForAll;'
  [name |-> <<70,111,117,114,105,101,114,116,114,102,59>>, first |-> 8497, second |-> -1], \* 'Fouriertrf;'
  [name |-> <<70,115,99,114,59>>, first |-> 8497, second |-> -1], \* 'Fscr;'
  [name |-> <<71,74,99,121,59>>, first |-> 1027, second |-> -1], \* 'GJcy;'
  [name |-> <<71,84,59>>, first |-> 62, second |-> -1], \* 'GT;'
  [name |-> <<71,84>>, first |-> 62, second |-> -1], \* 'GT'
  [name |-> <<71,97,109,109,97,59>>, first |-> 915, second |-> -1], \* 'Gamma;'
  [name |-> <<71,97,109,109,97,100,59>>, first |-> 988, second |-> -1], \* 'Gammad;'
  [name |-> <<71,98,114,101,118,101,59>>, first |-> 286, second |-> -1], \* 'Gbreve;'
  [name |-> <<71,99,101,100,105,108,59>>, first |-> 290, second |-> -1], \* 'Gcedil;'
  [name |-> <<71,99,105,114,99,59>>, first |-> 284, second |-> -1], \* 'Gcirc;'
  [name |-> <<71,99,121,59>>, first |-> 1043, second |-> -1], \* 'Gcy;'
  [name |-> <<71,100,111,116,59>>, first |-> 288, second |-> -1], \* 'Gdot;'
  [name |-> <<71,102,114,59>>, first |-> 120074, second |-> -1], \* 'Gfr;'
  [name |-> <<71,103,59>>, first |-> 8921, second |-> -1], \* 'Gg;'
  [name |-> <<71,111,112,102,59>>, first |-> 120126, second |-> -1], \* 'Gopf;'
  [name |-> <<71,114,101,97,116,101,114,69,113,117,97,108,59>>, first |-> 8805, second |-> -1], \* 'GreaterEqual;'
  [name |-> <<71,114,101,97,116,101,114,69,113,117,97,108,76,101,115,115,59>>, first |-> 8923, second |-> -1], \* 'GreaterEqualLess;'
  [name |-> <<71,114,101,97,116,101,114,70,117,108,108,69,113,117,97,108,59>>, first |-> 8807, second |-> -1], \* 'GreaterFullEqual;'
  [name |-> <<71,114,101,97,116,101,114,71,114,101,97,116,101,114,59>>, first |-> 10914, second |-> -1], \* 'GreaterGreater;'
  [name |-> <<71,114,101,97,116,101,114,76,101,115,115,59>>, first |-> 8823, second |-> -1], \* 'GreaterLess;'
  [name |-> <<71,114,101,97,116,101,114,83,108,97,110,116,69,113,117,97,108,59>>, first |-> 10878, second |-> -1], \* 'GreaterSlantEqual;'
  [name |-> <<71,114,101,97,116,101,114,84,105,108,100,101,59>>, first |-> 8819, second |-> -1], \* 'GreaterTilde;'
  [name |-> <<71,115,99,114,59>>, first |-> 119970, second |-> -1], \* 'Gscr;'
  [name |-> <<71,116,59>>, first |-> 8811, second |-> -1], \* 'Gt;'
  [name |-> <<72,65,82,68,99,121,59>>, first |-> 1066, second |-> -1], \* 'HARDcy;'
  [name |-> <<72,97,99,101,107,59>>, first |-> 711, second |-> -1], \* 'Hacek;'
  [name |-> <<72,97,116,59>>, first |-> 94, second |-> -1], \* 'Hat;'
  [name |-> <<72,99,105,114,99,59>>, first |-> 292, second |-> -1], \* 'Hcirc;'
  [name |-> <<72,102,114,59>>, first |-> 8460, second |-> -1], \* 'Hfr;'
  [name |-> <<72,105,108,98,101,114,116,83,112,97,99,101,59>>, first |-> 8459, second |-> -1], \* 'HilbertSpace;'
  [name |-> <<72,111,112,102,59>>, first |-> 8461, second |-> -1], \* 'Hopf;'
  [name |-> <<72,111,114,105,122,111,110,116,97,108,76,105,110,101,59>>, first |-> 9472, second |-> -1], \* 'HorizontalLine;'
  [name |-> <<72,115,99,114,59>>, first |-> 8459, second |-> -1], \* 'Hscr;'
  [name |-> <<72,115,116,114,111,107,59>>, first |-> 294, second |-> -1], \* 'Hstrok;'
  [name |-> <<72,117,109,112,68,111,119,110,72,117,109,112,59>>, first |-> 8782, second |-> -1], \* 'HumpDownHump;'
  [name |-> <<72,117,109,112,69,113,117,97,108,59>>, first |-> 8783, second |-> -1], \* 'HumpEqual;'
  [name |-> <<73,69,99,121,59>>, first |-> 1045, second |-> -1], \* 'IEcy;'
  [name |-> <<73,74,108,105,103,59>>, first |-> 306, second |-> -1], \* 'IJlig;'
  [name |-> <<73,79,99,121,59>>, first |-> 1025, second |-> -1], \* 'IOcy;'
  [name |-> <<73,97,99,117,116,101,59>>, first |-> 205, second |-> -1], \* 'Iacute;'
  [name |-> <<73,97,99,117,116,101>>, first |-> 205, second |-> -1], \* 'Iacute'
  [name |-> <<73,99,105,114,99,59>>, first |-> 206, second |-> -1], \* 'Icirc;'
  [name |-> <<73,99,105,114,99>>, first |-> 206, second |-> -1], \* 'Icirc'
  [name |-> <<73,99,121,59>>, first |-> 1048, second |-> -1], \* 'Icy;'
  [name |-> <<73,100,111,116,59>>, first |-> 304, second |-> -1], \* 'Idot;'
  [name |-> <<73,102,114,59>>, first |-> 8465, second |-> -1], \* 'Ifr;'
  [name |-> <<73,103,114,97,118,101,59>>, first |-> 204, second |-> -1], \* 'Igrave;'
  [name |-> <<73,103,114,97,118,101>>, first |-> 204, second |-> -1], \* 'Igrave'
  [name |-> <<73,109,59>>, first |-> 8465, second |-> -1], \* 'Im;'
  [name |-> <<73,109,97,99,114,59>>, first |-> 298, second |-> -1], \* 'Imacr;'
  [name |-> <<73,109,97,103,105,110,97,114,121,73,59>>, first |-> 8520, second |-> -1], \* 'ImaginaryI;'
  [name |-> <<73,109,112,108,105,101,115,59>>, first |-> 8658, second |-> -1], \* 'Implies;'
  [name |-> <<73,110,116,59>>, first |-> 8748, second |-> -1], \* 'Int;'
  [name |-> <<73,110,116,101,103,114,97,108,59>>, first |-> 8747, second |-> -1], \* 'Integral;'
  [name |-> <<73,110,116,101,114,115,101,99,116,105,111,110,59>>, first |-> 8898, second |-> -1], \* 'Intersection;'
  [name |-> <<73,110,118,105,115,105,98,108,101,67,111,109,109,97,59>>, first |-> 8291, second |-> -1], \* 'InvisibleComma;'
  [name |-> <<73,110,118,105,115,105,98,108,101,84,105,109,101,115,59>>, first |-> 8290, second |-> -1], \* 'InvisibleTimes;'
  [name |-> <<73,111,103,111,110,59>>, first |-> 302, second |-> -1], \* 'Iogon;'
  [name |-> <<73,111,112,102,59>>, first |-> 120128, second |-> -1], \* 'Iopf;'
  [name |-> <<73,111,116,97,59>>, first |-> 921, second |-> -1], \* 'Iota;'
  [name |-> <<73,115,99,114,59>>, first |-> 8464, second |-> -1], \* 'Iscr;'
  [name |-> <<73,116,105,108,100,101,59>>, first |-> 296, second |-> -1], \* 'Itilde;'
  [name |-> <<73,117,107,99,121,59>>, first |-> 1030, second |-> -1], \* 'Iukcy;'
  [name |-> <<73,117,109,108,59>>, first |-> 207, second |-> -1], \* 'Iuml;'
  [name |-> <<73,117,109,108>>, first |-> 207, second |-> -1], \* 'Iuml'
  [name |-> <<74,99,105,114,99,59>>, first |-> 308, second |-> -1], \* 'Jcirc;'
  [name |-> <<74,99,121,59>>, first |-> 1049, second |-> -1], \* 'Jcy;'
  [name |-> <<74,102,114,59>>, first |-> 120077, second |-> -1], \* 'Jfr;'
  [name |-> <<74,111,112,102,59>>, first |-> 120129, second |-> -1], \* 'Jopf;'
  [name |-> <<74,115,99,114,59>>, first |-> 119973, second |-> -1], \* 'Jscr;'
  [name |-> <<74,115,101,114,99,121,59>>, first |-> 1032, second |-> -1], \* 'Jsercy;'
  [name |-> <<74,117,107,99,121,59>>, first |-> 1028, second |-> -1], \* 'Jukcy;'
  [name |-> <<75,72,99,121,59>>, first |-> 1061, second |-> -1], \* 'KHcy;'
  [name |-> <<75,74,99,121,59>>, first |-> 1036, second |-> -1], \* 'KJcy;'
  [name |-> <<75,97,112,112,97,59>>, first |-> 922, second |-> -1], \* 'Kappa;'
  [name |-> <<75,99,101,100,105,108,59>>, first |-> 310, second |-> -1], \* 'Kcedil;'
  [name |-> <<75,99,121,59>>, first |-> 1050, second |-> -1], \* 'Kcy;'
  [name |-> <<75,102,114,59>>, first |-> 120078, second |-> -1], \* 'Kfr;'
  [name |-> <<75,111,112,102,59>>, first |-> 120130, second |-> -1], \* 'Kopf;'
  [name |-> <<75,115,99,114,59>>, first |-> 119974, second |-> -1], \* 'Kscr;'
  [name |-> <<76,74,99,121,59>>, first |-> 1033, second |-> -1], \* 'LJcy;'
  [name |-> <<76,84,59>>, first |-> 60, second |-> -1], \* 'LT;'
  [name |-> <<76,84>>, first |-> 60, second |-> -1], \* 'LT'
  [name |-> <<76,97,99,117,116,101,59>>, first |-> 313, second |-> -1], \* 'Lacute;'
  [name |-> <<76,97,109,98,100,97,59>>, first |-> 923, second |-> -1], \* 'Lambda;'
  [name |-> <<76,97,110,103,59>>, first |-> 10218, second |-> -1], \* 'Lang;'
  [name |-> <<76,97,112,108,97,99,101,116,114,102,59>>, first |-> 8466, second |-> -1], \* 'Laplacetrf;'
  [name |-> <<76,97,114,114,59>>, first |-> 8606, second |-> -1], \* 'Larr;'
  [name |-> <<76,99,97,114,111,110,59>>, first |-> 317, second |-> -1], \* 'Lcaron;'
  [name |-> <<76,99,101,100,105,108,59>>, first |-> 315, second |-> -1], \* 'Lcedil;'
  [name |-> <<76,99,121,59>>, first |-> 1051, second |-> -1], \* 'Lcy;'
  [name |-> <<76,101,102,116,65,110,103,108,101,66,114,97,99,107,101,116,59>>, first |-> 10216, second |-> -1], \* 'LeftAngleBracket;'
  [name |-> <<76,101,102,116,65,114,114,111,119,59>>, first |-> 8592, second |-> -1], \* 'LeftArrow;'
  [name |-> <<76,101,102,116,65,114,114,111,119,66,97,114,59>>, first |-> 8676, second |-> -1], \* 'LeftArrowBar;'
  [name |-> <<76,101,102,116,65,114,114,111,119,82,105,103,104,116,65,114,114,111,119,59>>, first |-> 8646, second |-> -1], \* 'LeftArrowRightArrow;'
  [name |-> <<76,101,102,116,67,101,105,108,105,110,103,59>>, first |-> 8968, second |-> -1], \* 'LeftCeiling;'
  [name |-> <<76,101,102,116,68,111,117,98,108,101,66,114,97,99,107,101,116,59>>, first |-> 10214, second |-> -1], \* 'LeftDoubleBracket;'
  [name |-> <<76,101,102,116,68,111,119,110,84,101,101,86,101,99,116,111,114,59>>, first |-> 10593, second |-> -1], \* 'LeftDownTeeVector;'
  [name |-> <<76,101,102,116,68,111,119,110,86,101,99,116,111,114,59>>, first |-> 8643, second |-> -1], \* 'LeftDownVector;'
  [name |-> <<76,101,102,116,68,111,119,110,86,101,99,116,111,114,66,97,114,59>>, first |-> 10585, second |-> -1], \* 'LeftDownVectorBar;'
  [name |-> <<76,101,102,116,70,108,111,111,114,59>>, first |-> 8970, second |-> -1], \* 'LeftFloor;'
  [name |-> <<76,101,102,116,82,105,103,104,116,65,114,114,111,119,59>>, first |-> 8596, second |-> -1], \* 'LeftRightArrow;'
  [name |-> <<76,101,102,116,82,105,103,104,116,86,101,99,116,111,114,59>>, first |-> 10574, second |-> -1], \* 'LeftRightVector;'
  [name |-> <<76,101,102,116,84,101,101,59>>, first |-> 8867, second |-> -1], \* 'LeftTee;'
  [name |-> <<76,101,102,116,84,101,101,65,114,114,111,119,59>>, first |-> 8612, second |-> -1], \* 'LeftTeeArrow;'
  [name |-> <<76,101,102,116,84,101,101,86,101,99,116,111,114,59>>, first |-> 10586, second |-> -1], \* 'LeftTeeVector;'
  [name |-> <<76,101,102,116,84,114,105,97,110,103,108,101,59>>, first |-> 8882, second |-> -1], \* 'LeftTriangle;'
  [name |-> <<76,101,102,116,84,114,105,97,110,103,108,101,66,97,114,59>>, first |-> 10703, second |-> -1], \* 'LeftTriangleBar;'
  [name |-> <<76,101,102,116,84,114,105,97,110,103,108,101,69,113,117,97,108,59>>, first |-> 8884, second |-> -1], \* 'LeftTriangleEqual;'
  [name |-> <<76,101,102,116,85,112,68,111,119,110,86,101,99,116,111,114,59>>, first |-> 10577, second |-> -1], \* 'LeftUpDownVector;'
  [name |-> <<76,101,102,116,85,112,84,101,101,86,101,99,116,111,114,59>>, first |-> 10592, second |-> -1], \* 'LeftUpTeeVector;'
  [name |-> <<76,101,102,116,85,112,86,101,99,116,111,114,59>>, first |-> 8639, second |-> -1], \* 'LeftUpVector;'
  [name |-> <<76,101,102,116,85,112,86,101,99,116,111,114,66,97,114,59>>, first |-> 10584, second |-> -1], \* 'LeftUpVectorBar;'
  [name |-> <<76,101,102,116,86,101,99,116,111,114,59>>, first |-> 8636, second |-> -1], \* 'LeftVector;'
  [name |-> <<76,101,102,116,86,101,99,116,111,114,66,97,114,59>>, first |-> 10578, second |-> -1], \* 'LeftVectorBar;'
  [name |-> <<76,101,102,116,97,114,114,111,119,59>>, first |-> 8656, second |-> -1], \* 'Leftarrow;'
  [name |-> <<76,101,102,116,114,105,103,104,116,97,114,114,111,119,59>>, first |-> 8660, second |-> -1], \* 'Leftrightarrow;'
  [name |-> <<76,101,115,115,69,113,117,97,108,71,114,101,97,116,101,114,59>>, first |-> 8922, second |-> -1], \* 'LessEqualGreater;'
  [name |-> <<76,101,115,115,70,117,108,108,69,113,117,97,108,59>>, first |-> 8806, second |-> -1], \* 'LessFullEqual;'
  [name |-> <<76,101,115,115,71,114,101,97,116,101,114,59>>, first |-> 8822, second |-> -1], \* 'LessGreater;'
  [name |-> <<76,101,115,115,76,101,115,115,59>>, first |-> 10913, second |-> -1], \* 'LessLess;'
  [name |-> <<76,101,115,115,83,108,97,110,116,69,113,117,97,108,59>>, first |-> 10877, second |-> -1], \* 'LessSlantEqual;'
  [name |-> <<76,101,115,115,84,105,108,100,101,59>>, first |-> 8818, second |-> -1], \* 'LessTilde;'
  [name |-> <<76,102,114,59>>, first |-> 120079, second |-> -1], \* 'Lfr;'
  [name |-> <<76,108,59>>, first |-> 8920, second |-> -1], \* 'Ll;'
  [name |-> <<76,108,101,102,116,97,114,114,111,119,59>>, first |-> 8666, second |-> -1], \* 'Lleftarrow;'
  [name |-> <<76,109,105,100,111,116,59>>, first |-> 319, second |-> -1], \* 'Lmidot;'
  [name |-> <<76,111,110,103,76,101,102,116,65,114,114,111,119,59>>, first |-> 10229, second |-> -1], \* 'LongLeftArrow;'
  [name |-> <<76,111,110,103,76,101,102,116,82,105,103,104,116,65,114,114,111,119,59>>, first |-> 10231, second |-> -1], \* 'LongLeftRightArrow;'
  [name |-> <<76,111,110,103,82,105,103,104,116,65,114,114,111,119,59>>, first |-> 10230, second |-> -1], \* 'LongRightArrow;'
  [name |-> <<76,111,110,103,108,101,102,116,97,114,114,111,119,59>>, first |-> 10232, second |-> -1], \* 'Longleftarrow;'
  [name |-> <<76,111,110,103,108,101,102,116,114,105,103,104,116,97,114,114,111,119,59>>, first |-> 10234, second |-> -1], \* 'Longleftrightarrow;'
  [name |-> <<76,111,110,103,114,105,103,104,116,97,114,114,111,119,59>>, first |-> 10233, second |-> -1], \* 'Longrightarrow;'
  [name |-> <<76,111,112,102,59>>, first |-> 120131, second |-> -1], \* 'Lopf;'
  [name |-> <<76,111,119,101,114,76,101,102,116,65,114,114,111,119,59>>, first |-> 8601, second |-> -1], \* 'LowerLeftArrow;'
  [name |-> <<76,111,119,101,114,82,105,103,104,116,65,114,114,111,119,59>>, first |-> 8600, second |-> -1], \* 'LowerRightArrow;'
  [name |-> <<76,115,99,114,59>>, first |-> 8466, second |-> -1], \* 'Lscr;'
  [name |-> <<76,115,104,59>>, first |-> 8624, second |-> -1], \* 'Lsh;'
  [name |-> <<76,115,116,114,111,107,59>>, first |-> 321, second |-> -1], \* 'Lstrok;'
  [name |-> <<76,116,59>>, first |-> 8810, second |-> -1], \* 'Lt;'
  [name |-> <<77,97,112,59>>, first |-> 10501, second |-> -1], \* 'Map;'
  [name |-> <<77,99,121,59>>, first |-> 1052, second |-> -1], \* 'Mcy;'
  [name |-> <<77,101,100,105,117,109,83,112,97,99,101,59>>, first |-> 8287, second |-> -1], \* 'MediumSpace;'
  [name |-> <<77,101,108,108,105,110,116,114,102,59>>, first |-> 8499, second |-> -1], \* 'Mellintrf;'
  [name |-> <<77,102,114,59>>, first |-> 120080, second |-> -1], \* 'Mfr;'
  [name |-> <<77,105,110,117,115,80,108,117,115,59>>, first |-> 8723, second |-> -1], \* 'MinusPlus;'
  [name |-> <<77,111,112,102,59>>, first |-> 120132, second |-> -1], \* 'Mopf;'
  [name |-> <<77,115,99,114,59>>, first |-> 8499, second |-> -1], \* 'Mscr;'
  [name |-> <<77,117,59>>, first |-> 924, second |-> -1], \* 'Mu;'
  [name |-> <<78,74,99,121,59>>, first |-> 1034, second |-> -1], \* 'NJcy;'
  [name |-> <<78,97,99,117,116,101,59>>, first |-> 323, second |-> -1], \* 'Nacute;'
  [name |-> <<78,99,97,114,111,110,59>>, first |-> 327, second |-> -1], \* 'Ncaron;'
  [name |-> <<78,99,101,100,105,108,59>>, first |-> 325, second |-> -1], \* 'Ncedil;'
  [name |-> <<78,99,121,59>>, first |-> 1053, second |-> -1], \* 'Ncy;'
  [name |-> <<78,101,103,97,116,105,118,101,77,101,100,105,117,109,83,112,97,99,101,59>>, first |-> 8203, second |-> -1], \* 'NegativeMediumSpace;'
  [name |-> <<78,101,103,97,116,105,118,101,84,104,105,99,107,83,112,97,99,101,59>>, first |-> 8203, second |-> -1], \* 'NegativeThickSpace;'
  [name |-> <<78,101,103,97,116,105,118,101,84,104,105,110,83,112,97,99,101,59>>, first |-> 8203, second |-> -1], \* 'NegativeThinSpace;'
  [name |-> <<78,101,103,97,116,105,118,101,86,101,114,121,84,104,105,110,83,112,97,99,101,59>>, first |-> 8203, second |-> -1], \* 'NegativeVeryThinSpace;'
  [name |-> <<78,101,115,116,101,100,71,114,101,97,116,101,114,71,114,101,97,116,101,114,59>>, first |-> 8811, second |-> -1], \* 'NestedGreaterGreater;'
  [name |-> <<78,101,115,116,101,100,76,101,115,115,76,101,115,115,59>>, first |-> 8810, second |-> -1], \* 'NestedLessLess;'
  [name |-> <<78,101,119,76,105,110,101,59>>, first |-> 10, second |-> -1], \* 'NewLine;'
  [name |-> <<78,102,114,59>>, first |-> 120081, second |-> -1], \* 'Nfr;'
  [name |-> <<78,111,66,114,101,97,107,59>>, first |-> 8288, second |-> -1], \* 'NoBreak;'
  [name |-> <<78,111,110,66,114,101,97,107,105,110,103,83,112,97,99,101,59>>, first |-> 160, second |-> -1], \* 'NonBreakingSpace;'
  [name |-> <<78,111,112,102,59>>, first |-> 8469, second |-> -1], \* 'Nopf;'
  [name |-> <<78,111,116,59>>, first |-> 10988, second |-> -1], \* 'Not;'
  [name |-> <<78,111,116,67,111,110,103,114,117,101,110,116,59>>, first |-> 8802, second |-> -1], \* 'NotCongruent;'
  [name |-> <<78,111,116,67,117,112,67,97,112,59>>, first |-> 8813, second |-> -1], \* 'NotCupCap;'
  [name |-> <<78,111,116,68,111,117,98,108,101,86,101,114,116,105,99,97,108,66,97,114,59>>, first |-> 8742, second |-> -1], \* 'NotDoubleVerticalBar;'
  [name |-> <<78,111,116,69,108,101,109,101,110,116,59>>, first |-> 8713, second |-> -1], \* 'NotElement;'
  [name |-> <<78,111,116,69,113,117,97,108,59>>, first |-> 8800, second |-> -1], \* 'NotEqual;'
  [name |-> <<78,111,116,69,113,117,97,108,84,105,108,100,101,59>>, first |-> 8770, second |-> 824], \* 'NotEqualTilde;'
  [name |-> <<78,111,116,69,120,105,115,116,115,59>>, first |-> 8708, second |-> -1], \* 'NotExists;'
  [name |-> <<78,111,116,71,114,101,97,116,101,114,59>>, first |-> 8815, second |-> -1], \* 'NotGreater;'
  [name |-> <<78,111,116,71,114,101,97,116,101,114,69,113,117,97,108,59>>, first |-> 8817, second |-> -1], \* 'NotGreaterEqual;'
  [name |-> <<78,111,116,71,114,101,97,116,101,114,70,117,108,108,69,113,117,97,108,59>>, first |-> 8807, second |-> 824], \* 'NotGreaterFullEqual;'
  [name |-> <<78,111,116,71,114,101,97,116,101,114,71,114,101,97,116,101,114,59>>, first |-> 8811, second |-> 824], \* 'NotGreaterGreater;'
  [name |-> <<78,111,116,71,114,101,97,116,101,114,76,101,115,115,59>>, first |-> 8825, second |-> -1], \* 'NotGreaterLess;'
  [name |-> <<78,111,116,71,114,101,97,116,101,114,83,108,97,110,116,69,113,117,97,108,59>>, first |-> 10878, second |-> 824], \* 'NotGreaterSlantEqual;'
  [name |-> <<78,111,116,71,114,101,97,116,101,114,84,105,108,100,101,59>>, first |-> 8821, second |-> -1], \* 'NotGreaterTilde;'
  [name |-> <<78,111,116,72,117,109,112,68,111,119,110,72,117,109,112,59>>, first |-> 8782, second |-> 824], \* 'NotHumpDownHump;'
  [name |-> <<78,111,116,72,117,109,112,69,113,117,97,108,59>>, first |-> 8783, second |-> 824], \* 'NotHumpEqual;'
  [name |-> <<78,111,116,76,101,102,116,84,114,105,97,110,103,108,101,59>>, first |-> 8938, second |-> -1], \* 'NotLeftTriangle;'
  [name |-> <<78,111,116,76,101,102,116,84,114,105,97,110,103,108,101,66,97,114,59>>, first |-> 10703, second |-> 824], \* 'NotLeftTriangleBar;'
  [name |-> <<78,111,116,76,101,102,116,84,114,105,97,110,103,108,101,69,113,117,97,108,59>>, first |-> 8940, second |-> -1], \* 'NotLeftTriangleEqual;'
  [name |-> <<78,111,116,76,101,115,115,59>>, first |-> 8814, second |-> -1], \* 'NotLess;'
  [name |-> <<78,111,116,76,101,115,115,69,113,117,97,108,59>>, first |-> 8816, second |-> -1], \* 'NotLessEqual;'
  [name |-> <<78,111,116,76,101,115,115,71,114,101,97,116,101,114,59>>, first |-> 8824, second |-> -1], \* 'NotLessGreater;'
  [name |-> <<78,111,116,76,101,115,115,76,101,115,115,59>>, first |-> 8810, second |-> 824], \* 'NotLessLess;'
  [name |-> <<78,111,116,76,101,115,115,83,108,97,110,116,69,113,117,97,108,59>>, first |-> 10877, second |-> 824], \* 'NotLessSlantEqual;'
  [name |-> <<78,111,116,76,101,115,115,84,105,108,100,101,59>>, first |-> 8820, second |-> -1], \* 'NotLessTilde;'
  [name |-> <<78,111,116,78,101,115,116,101,100,71,114,101,97,116,101,114,71,114,101,97,116,101,114,59>>, first |-> 10914, second |-> 824], \* 'NotNestedGreaterGreater;'
  [name |-> <<78,111,116,78,101,115,116,101,100,76,101,115,115,76,101,115,115,59>>, first |-> 10913, second |-> 824], \* 'NotNestedLessLess;'
  [name |-> <<78,111,116,80,114,101,99,101,100,101,115,59>>, first |-> 8832, second |-> -1], \* 'NotPrecedes;'
  [name |-> <<78,111,116,80,114,101,99,101,100,101,115,69,113,117,97,108,59>>, first |-> 10927, second |-> 824], \* 'NotPrecedesEqual;'
  [name |-> <<78,111,116,80,114,101,99,101,100,101,115,83,108,97,110,116,69,113,117,97,108,59>>, first |-> 8928, second |-> -1], \* 'NotPrecedesSlantEqual;'
  [name |-> <<78,111,116,82,101,118,101,114,115,101,69,108,101,109,101,110,116,59>>, first |-> 8716, second |-> -1], \* 'NotReverseElement;'
  [name |-> <<78,111,116,82,105,103,104,116,84,114,105,97,110,103,108,101,59>>, first |-> 8939, second |-> -1], \* 'NotRightTriangle;'
  [name |-> <<78,111,116,82,105,103,104,116,84,114,105,97,110,103,108,101,66,97,114,59>>, first |-> 10704, second |-> 824], \* 'NotRightTriangleBar;'
  [name |-> <<78,111,116,82,105,103,104,116,84,114,105,97,110,103,108,101,69,113,117,97,108,59>>, first |-> 8941, second |-> -1], \* 'NotRightTriangleEqual;'
  [name |-> <<78,111,116,83,113,117,97,114,101,83,117,98,115,101,116,59>>, first |-> 8847, second |-> 824], \* 'NotSquareSubset;'
  [name |-> <<78,111,116,83,113,117,97,114,101,83,117,98,115,101,116,69,113,117,97,108,59>>, first |-> 8930, second |-> -1], \* 'NotSquareSubsetEqual;'
  [name |-> <<78,111,116,83,113,117,97,114,101,83,117,112,101,114,115,101,116,59>>, first |-> 8848, second |-> 824], \* 'NotSquareSuperset;'
  [name |-> <<78,111,116,83,113,117,97,114,101,83,117,112,101,114,115,101,116,69,113,117,97,108,59>>, first |-> 8931, second |-> -1], \* 'NotSquareSupersetEqual;'
  [name |-> <<78,111,116,83,117,98,115,101,116,59>>, first |-> 8834, second |-> 8402], \* 'NotSubset;'
  [name |-> <<78,111,116,83,117,98,115,101,116,69,113,117,97,108,59>>, first |-> 8840, second |-> -1], \* 'NotSubsetEqual;'
  [name |-> <<78,111,116,83,117,99,99,101,101,100,115,59>>, first |-> 8833, second |-> -1], \* 'NotSucceeds;'
  [name |-> <<78,111,116,83,117,99,99,101,101,100,115,69,113,117,97,108,59>>, first |-> 10928, second |-> 824], \* 'NotSucceedsEqual;'
  [name |-> <<78,111,116,83,117,99,99,101,101,100,115,83,108,97,110,116,69,113,117,97,108,59>>, first |-> 8929, second |-> -1], \* 'NotSucceedsSlantEqual;'
  [name |-> <<78,111,116,83,117,99,99,101,101,100,115,84,105,108,100,101,59>>, first |-> 8831, second |-> 824], \* 'NotSucceedsTilde;'
  [name |-> <<78,111,116,83,117,112,101,114,115,101,116,59>>, first |-> 8835, second |-> 8402], \* 'NotSuperset;'
  [name |-> <<78,111,116,83,117,112,101,114,115,101,116,69,113,117,97,108,59>>, first |-> 8841, second |-> -1], \* 'NotSupersetEqual;'
  [name |-> <<78,111,116,84,105,108,100,101,59>>, first |-> 8769, second |-> -1], \* 'NotTilde;'
  [name |-> <<78,111,116,84,105,108,100,101,69,113,117,97,108,59>>, first |-> 8772, second |-> -1], \* 'NotTildeEqual;'
  [name |-> <<78,111,116,84,105,108,100,101,70,117,108,108,69,113,117,97,108,59>>, first |-> 8775, second |-> -1], \* 'NotTildeFullEqual;'
  [name |-> <<78,111,116,84,105,108,100,101,84,105,108,100,101,59>>, first |-> 8777, second |-> -1], \* 'NotTildeTilde;'
  [name |-> <<78,111,116,86,101,114,116,105,99,97,108,66,97,114,59>>, first |-> 8740, second |-> -1], \* 'NotVerticalBar;'
  [name |-> <<78,115,99,114,59>>, first |-> 119977, second |-> -1], \* 'Nscr;'
  [name |-> <<78,116,105,108,100,101,59>>, first |-> 209, second |-> -1], \* 'Ntilde;'
  [name |-> <<78,116,105,108,100,101>>, first |-> 209, second |-> -1], \* 'Ntilde'
  [name |-> <<78,117,59>>, first |-> 925, second |-> -1], \* 'Nu;'
  [name |-> <<79,69,108,105,103,59>>, first |-> 338, second |-> -1], \* 'OElig;'
  [name |-> <<79,97,99,117,116,101,59>>, first |-> 211, second |-> -1], \* 'Oacute;'
  [name |-> <<79,97,99,117,116,101>>, first |-> 211, second |-> -1], \* 'Oacute'
  [name |-> <<79,99,105,114,99,59>>, first |-> 212, second |-> -1], \* 'Ocirc;'
  [name |-> <<79,99,105,114,99>>, first |-> 212, second |-> -1], \* 'Ocirc'
  [name |-> <<79,99,121,59>>, first |-> 1054, second |-> -1], \* 'Ocy;'
  [name |-> <<79,100,98,108,97,99,59>>, first |-> 336, second |-> -1], \* 'Odblac;'
  [name |-> <<79,102,114,59>>, first |-> 120082, second |-> -1], \* 'Ofr;'
  [name |-> <<79,103,114,97,118,101,59>>, first |-> 210, second |-> -1], \* 'Ograve;'
  [name |-> <<79,103,114,97,118,101>>, first |-> 210, second |-> -1], \* 'Ograve'
  [name |-> <<79,109,97,99,114,59>>, first |-> 332, second |-> -1], \* 'Omacr;'
  [name |-> <<79,109,101,103,97,59>>, first |-> 937, second |-> -1], \* 'Omega;'
  [name |-> <<79,109,105,99,114,111,110,59>>, first |-> 927, second |-> -1], \* 'Omicron;'
  [name |-> <<79,111,112,102,59>>, first |-> 120134, second |-> -1], \* 'Oopf;'
  [name |-> <<79,112,101,110,67,117,114,108,121,68,111,117,98,108,101,81,117,111,116,101,59>>, first |-> 8220, second |-> -1], \* 'OpenCurlyDoubleQuote;'
  [name |-> <<79,112,101,110,67,117,114,108,121,81,117,111,116,101,59>>, first |-> 8216, second |-> -1], \* 'OpenCurlyQuote;'
  [name |-> <<79,114,59>>, first |-> 10836, second |-> -1], \* 'Or;'
  [name |-> <<79,115,99,114,59>>, first |-> 119978, second |-> -1], \* 'Oscr;'
  [name |-> <<79,115,108,97,115,104,59>>, first |-> 216, second |-> -1], \* 'Oslash;'
  [name |-> <<79,115,108,97,115,104>>, first |-> 216, second |-> -1], \* 'Oslash'
  [name |-> <<79,116,105,108,100,101,59>>, first |-> 213, second |-> -1], \* 'Otilde;'
  [name |-> <<79,116,105,108,100,101>>, first |-> 213, second |-> -1], \* 'Otilde'
  [name |-> <<79,116,105,109,101,115,59>>, first |-> 10807, second |-> -1], \* 'Otimes;'
  [name |-> <<79,117,109,108,59>>, first |-> 214, second |-> -1], \* 'Ouml;'
  [name |-> <<79,117,109,108>>, first |-> 214, second |-> -1], \* 'Ouml'
  [name |-> <<79,118,101,114,66,97,114,59>>, first |-> 8254, second |-> -1], \* 'OverBar;'
  [name |-> <<79,118,101,114,66,114,97,99,101,59>>, first |-> 9182, second |-> -1], \* 'OverBrace;'
  [name |-> <<79,118,101,114,66,114,97,99,107,101,116,59>>, first |-> 9140, second |-> -1], \* 'OverBracket;'
  [name |-> <<79,118,101,114,80,97,114,101,110,116,104,101,115,105,115,59>>, first |-> 9180, second |-> -1], \* 'OverParenthesis;'
  [name |-> <<80,97,114,116,105,97,108,68,59>>, first |-> 8706, second |-> -1], \* 'PartialD;'
  [name |-> <<80,99,121,59>>, first |-> 1055, second |-> -1], \* 'Pcy;'
  [name |-> <<80,102,114,59>>, first |-> 120083, second |-> -1], \* 'Pfr;'
  [name |-> <<80,104,105,59>>, first |-> 934, second |-> -1], \* 'Phi;'
  [name |-> <<80,105,59>>, first |-> 928, second |-> -1], \* 'Pi;'
  [name |-> <<80,108,117,115,77,105,110,117,115,59>>, first |-> 177, second |-> -1], \* 'PlusMinus;'
  [name |-> <<80,111,105,110,99,97,114,101,112,108,97,110,101,59>>, first |-> 8460, second |-> -1], \* 'Poincareplane;'
  [name |-> <<80,111,112,102,59>>, first |-> 8473, second |-> -1], \* 'Popf;'
  [name |-> <<80,114,59>>, first |-> 10939, second |-> -1], \* 'Pr;'
  [name |-> <<80,114,101,99,101,100,101,115,59>>, first |-> 8826, second |-> -1], \* 'Precedes;'
  [name |-> <<80,114,101,99,101,100,101,115,69,113,117,97,108,59>>, first |-> 10927, second |-> -1], \* 'PrecedesEqual;'
  [name |-> <<80,114,101,99,101,100,101,115,83,108,97,110,116,69,113,117,97,108,59>>, first |-> 8828, second |-> -1], \* 'PrecedesSlantEqual;'
  [name |-> <<80,114,101,99,101,100,101,115,84,105,108,100,101,59>>, first |-> 8830, second |-> -1], \* 'PrecedesTilde;'
  [name |-> <<80,114,105,109,101,59>>, first |-> 8243, second |-> -1], \* 'Prime;'
  [name |-> <<80,114,111,100,117,99,116,59>>, first |-> 8719, second |-> -1], \* 'Product;'
  [name |-> <<80,114,111,112,111,114,116,105,111,110,59>>, first |-> 8759, second |-> -1], \* 'Proportion;'
  [name |-> <<80,114,111,112,111,114,116,105,111,110,97,108,59>>, first |-> 8733, second |-> -1], \* 'Proportional;'
  [name |-> <<80,115,99,114,59>>, first |-> 119979, second |-> -1], \* 'Pscr;'
  [name |-> <<80,115,105,59>>, first |-> 936, second |-> -1], \* 'Psi;'
  [name |-> <<81,85,79,84,59>>, first |-> 34, second |-> -1], \* 'QUOT;'
  [name |-> <<81,85,79,84>>, first |-> 34, second |-> -1], \* 'QUOT'
  [name |-> <<81,102,114,59>>, first |-> 120084, second |-> -1], \* 'Qfr;'
  [name |-> <<81,111,112,102,59>>, first |-> 8474, second |-> -1], \* 'Qopf;'
  [name |-> <<81,115,99,114,59>>, first |-> 119980, second |-> -1], \* 'Qscr;'
  [name |-> <<82,66,97,114,114,59>>, first |-> 10512, second |-> -1], \* 'RBarr;'
  [name |-> <<82,69,71,59>>, first |-> 174, second |-> -1], \* 'REG;'
  [name |-> <<82,69,71>>, first |-> 174, second |-> -1], \* 'REG'
  [name |-> <<82,97,99,117,116,101,59>>, first |-> 340, second |-> -1], \* 'Racute;'
  [name |-> <<82,97,110,103,59>>, first |-> 10219, second |-> -1], \* 'Rang;'
  [name |-> <<82,97,114,114,59>>, first |-> 8608, second |-> -1], \* 'Rarr;'
  [name |-> <<82,97,114,114,116,108,59>>, first |-> 10518, second |-> -1], \* 'Rarrtl;'
  [name |-> <<82,99,97,114,111,110,59>>, first |-> 344, second |-> -1], \* 'Rcaron;'
  [name |-> <<82,99,101,100,105,108,59>>, first |-> 342, second |-> -1], \* 'Rcedil;'
  [name |-> <<82,99,121,59>>, first |-> 1056, second |-> -1], \* 'Rcy;'
  [name |-> <<82,101,59>>, first |-> 8476, second |-> -1], \* 'Re;'
  [name |-> <<82,101,118,101,114,115,101,69,108,101,109,101,110,116,59>>, first |-> 8715, second |-> -1], \* 'ReverseElement;'
  [name |-> <<82,101,118,101,114,115,101,69,113,117,105,108,105,98,114,105,117,109,59>>, first |-> 8651, second |-> -1], \* 'ReverseEquilibrium;'
  [name |-> <<82,101,118,101,114,115,101,85,112,69,113,117,105,108,105,98,114,105,117,109,59>>, first |-> 10607, second |-> -1], \* 'ReverseUpEquilibrium;'
  [name |-> <<82,102,114,59>>, first |-> 8476, second |-> -1], \* 'Rfr;'
  [name |-> <<82,104,111,59>>, first |-> 929, second |-> -1], \* 'Rho;'
  [name |-> <<82,105,103,104,116,65,110,103,108,101,66,114,97,99,107,101,116,59>>, first |-> 10217, second |-> -1], \* 'RightAngleBracket;'
  [name |-> <<82,105,103,104,116,65,114,114,111,119,59>>, first |-> 8594, second |-> -1], \* 'RightArrow;'
  [name |-> <<82,105,103,104,116,65,114,114,111,119,66,97,114,59>>, first |-> 8677, second |-> -1], \* 'RightArrowBar;'
  [name |-> <<82,105,103,104,116,65,114,114,111,119,76,101,102,116,65,114,114,111,119,59>>, first |-> 8644, second |-> -1], \* 'RightArrowLeftArrow;'
  [name |-> <<82,105,103,104,116,67,101,105,108,105,110,103,59>>, first |-> 8969, second |-> -1], \* 'RightCeiling;'
  [name |-> <<82,105,103,104,116,68,111,117,98,108,101,66,114,97,99,107,101,116,59>>, first |-> 10215, second |-> -1], \* 'RightDoubleBracket;'
  [name |-> <<82,105,103,104,116,68,111,119,110,84,101,101,86,101,99,116,111,114,59>>, first |-> 10589, second |-> -1], \* 'RightDownTeeVector;'
  [name |-> <<82,105,103,104,116,68,111,119,110,86,101,99,116,111,114,59>>, first |-> 8642, second |-> -1], \* 'RightDownVector;'
  [name |-> <<82,105,103,104,116,68,111,119,110,86,101,99,116,111,114,66,97,114,59>>, first |-> 10581, second |-> -1], \* 'RightDownVectorBar;'
  [name |-> <<82,105,103,104,116,70,108,111,111,114,59>>, first |-> 8971, second |-> -1], \* 'RightFloor;'
  [name |-> <<82,105,103,104,116,84,101,101,59>>, first |-> 8866, second |-> -1], \* 'RightTee;'
  [name |-> <<82,105,103,104,116,84,101,101,65,114,114,111,119,59>>, first |-> 8614, second |-> -1], \* 'RightTeeArrow;'
  [name |-> <<82,105,103,104,116,84,101,101,86,101,99,116,111,114,59>>, first |-> 10587, second |-> -1], \* 'RightTeeVector;'
  [name |-> <<82,105,103,104,116,84,114,105,97,110,103,108,101,59>>, first |-> 8883, second |-> -1], \* 'RightTriangle;'
  [name |-> <<82,105,103,104,116,84,114,105,97,110,103,108,101,66,97,114,59>>, first |-> 10704, second |-> -1], \* 'RightTriangleBar;'
  [name |-> <<82,105,103,104,116,84,114,105,97,110,103,108,101,69,113,117,97,108,59>>, first |-> 8885, second |-> -1], \* 'RightTriangleEqual;'
  [name |-> <<82,105,103,104,116,85,112,68,111,119,110,86,101,99,116,111,114,59>>, first |-> 10575, second |-> -1], \* 'RightUpDownVector;'
  [name |-> <<82,105,103,104,116,85,112,84,101,101,86,101,99,116,111,114,59>>, first |-> 10588, second |-> -1], \* 'RightUpTeeVector;'
  [name |-> <<82,105,103,104,116,85,112,86,101,99,116,111,114,59>>, first |-> 8638, second |-> -1], \* 'RightUpVector;'
  [name |-> <<82,105,103,104,116,85,112,86,101,99,116,111,114,66,97,114,59>>, first |-> 10580, second |-> -1], \* 'RightUpVectorBar;'
  [name |-> <<82,105,103,104,116,86,101,99,116,111,114,59>>, first |-> 8640, second |-> -1], \* 'RightVector;'
  [name |-> <<82,105,103,104,116,86,101,99,116,111,114,66,97,114,59>>, first |-> 10579, second |-> -1], \* 'RightVectorBar;'
  [name |-> <<82,105,103,104,116,97,114,114,111,119,59>>, first |-> 8658, second |-> -1], \* 'Rightarrow;'
  [name |-> <<82,111,112,102,59>>, first |-> 8477, second |-> -1], \* 'Ropf;'
  [name |-> <<82,111,117,110,100,73,109,112,108,105,101,115,59>>, first |-> 10608, second |-> -1], \* 'RoundImplies;'
  [name |-> <<82,114,105,103,104,116,97,114,114,111,119,59>>, first |-> 8667, second |-> -1], \* 'Rrightarrow;'
  [name |-> <<82,115,99,114,59>>, first |-> 8475, second |-> -1], \* 'Rscr;'
  [name |-> <<82,115,104,59>>, first |-> 8625, second |-> -1], \* 'Rsh;'
  [name |-> <<82,117,108,101,68,101,108,97,121,101,100,59>>, first |-> 10740, second |-> -1], \* 'RuleDelayed;'
  [name |-> <<83,72,67,72,99,121,59>>, first |-> 1065, second |-> -1], \* 'SHCHcy;'
  [name |-> <<83,72,99,121,59>>, first |-> 1064, second |-> -1], \* 'SHcy;'
  [name |-> <<83,79,70,84,99,121,59>>, first |-> 1068, second |-> -1], \* 'SOFTcy;'
  [name |-> <<83,97,99,117,116,101,59>>, first |-> 346, second |-> -1], \* 'Sacute;'
  [name |-> <<83,99,59>>, first |-> 10940, second |-> -1], \* 'Sc;'
  [name |-> <<83,99,97,114,111,110,59>>, first |-> 352, second |-> -1], \* 'Scaron;'
  [name |-> <<83,99,101,100,105,108,59>>, first |-> 350, second |-> -1], \* 'Scedil;'
  [name |-> <<83,99,105,114,99,59>>, first |-> 348, second |-> -1], \* 'Scirc;'
  [name |-> <<83,99,121,59>>, first |-> 1057, second |-> -1], \* 'Scy;'
  [name |-> <<83,102,114,59>>, first |-> 120086, second |-> -1], \* 'Sfr;'
  [name |-> <<83,104,111,114,116,68,111,119,110,65,114,114,111,119,59>>, first |-> 8595, second |-> -1], \* 'ShortDownArrow;'
  [name |-> <<83,104,111,114,116,76,101,102,116,65,114,114,111,119,59>>, first |-> 8592, second |-> -1], \* 'ShortLeftArrow;'
  [name |-> <<83,104,111,114,116,82,105,103,104,116,65,114,114,111,119,59>>, first |-> 8594, second |-> -1], \* 'ShortRightArrow;'
  [name |-> <<83,104,111,114,116,85,112,65,114,114,111,119,59>>, first |-> 8593, second |-> -1], \* 'ShortUpArrow;'
  [name |-> <<83,105,103,109,97,59>>, first |-> 931, second |-> -1], \* 'Sigma;'
  [name |-> <<83,109,97,108,108,67,105,114,99,108,101,59>>, first |-> 8728, second |-> -1], \* 'SmallCircle;'
  [name |-> <<83,111,112,102,59>>, first |-> 120138, second |-> -1], \* 'Sopf;'
  [name |-> <<83,113,114,116,59>>, first |-> 8730, second |-> -1], \* 'Sqrt;'
  [name |-> <<83,113,117,97,114,101,59>>, first |-> 9633, second |-> -1], \* 'Square;'
  [name |-> <<83,113,117,97,114,101,73,110,116,101,114,115,101,99,116,105,111,110,59>>, first |-> 8851, second |-> -1], \* 'SquareIntersection;'
  [name |-> <<83,113,117,97,114,101,83,117,98,115,101,116,59>>, first |-> 8847, second |-> -1], \* 'SquareSubset;'
  [name |-> <<83,113,117,97,114,101,83,117,98,115,101,116,69,113,117,97,108,59>>, first |-> 8849, second |-> -1], \* 'SquareSubsetEqual;'
  [name |-> <<83,113,117,97,114,101,83,117,112,101,114,115,101,116,59>>, first |-> 8848, second |-> -1], \* 'SquareSuperset;'
  [name |-> <<83,113,117,97,114,101,83,117,112,101,114,115,101,116,69,113,117,97,108,59>>, first |-> 8850, second |-> -1], \* 'SquareSupersetEqual;'
  [name |-> <<83,113,117,97,114,101,85,110,105,111,110,59>>, first |-> 8852, second |-> -1], \* 'SquareUnion;'
  [name |-> <<83,115,99,114,59>>, first |-> 119982, second |-> -1], \* 'Sscr;'
  [name |-> <<83,116,97,114,59>>, first |-> 8902, second |-> -1], \* 'Star;'
  [name |-> <<83,117,98,59>>, first |-> 8912, second |-> -1], \* 'Sub;'
  [name |-> <<83,117,98,115,101,116,59>>, first |-> 8912, second |-> -1], \* 'Subset;'
  [name |-> <<83,117,98,115,101,116,69,113,117,97,108,59>>, first |-> 8838, second |-> -1], \* 'SubsetEqual;'
  [name |-> <<83,117,99,99,101,101,100,115,59>>, first |-> 8827, second |-> -1], \* 'Succeeds;'
  [name |-> <<83,117,99,99,101,101,100,115,69,113,117,97,108,59>>, first |-> 10928, second |-> -1], \* 'SucceedsEqual;'
  [name |-> <<83,117,99,99,101,101,100,115,83,108,97,110,116,69,113,117,97,108,59>>, first |-> 8829, second |-> -1], \* 'SucceedsSlantEqual;'
  [name |-> <<83,117,99,99,101,101,100,115,84,105,108,100,101,59>>, first |-> 8831, second |-> -1], \* 'SucceedsTilde;'
  [name |-> <<83,117,99,104,84,104,97,116,59>>, first |-> 8715, second |-> -1], \* 'SuchThat;'
  [name |-> <<83,117,109,59>>, first |-> 8721, second |-> -1], \* 'Sum;'
  [name |-> <<83,117,112,59>>, first |-> 8913, second |-> -1], \* 'Sup;'
  [name |-> <<83,117,112,101,114,115,101,116,59>>, first |-> 8835, second |-> -1], \* 'Superset;'
  [name |-> <<83,117,112,101,114,115,101,116,69,113,117,97,108,59>>, first |-> 8839, second |-> -1], \* 'SupersetEqual;'
  [name |-> <<83,117,112,115,101,116,59>>, first |-> 8913, second |-> -1], \* 'Supset;'
  [name |-> <<84,72,79,82,78,59>>, first |-> 222, second |-> -1], \* 'THORN;'
  [name |-> <<84,72,79,82,78>>, first |-> 222, second |-> -1], \* 'THORN'
  [name |-> <<84,82,65,68,69,59>>, first |-> 8482, second |-> -1], \* 'TRADE;'
  [name |-> <<84,83,72,99,121,59>>, first |-> 1035, second |-> -1], \* 'TSHcy;'
  [name |-> <<84,83,99,121,59>>, first |-> 1062, second |-> -1], \* 'TScy;'
  [name |-> <<84,97,98,59>>, first |-> 9, second |-> -1], \* 'Tab;'
  [name |-> <<84,97,117,59>>, first |-> 932, second |-> -1], \* 'Tau;'
  [name |-> <<84,99,97,114,111,110,59>>, first |-> 356, second |-> -1], \* 'Tcaron;'
  [name |-> <<84,99,101,100,105,108,59>>, first |-> 354, second |-> -1], \* 'Tcedil;'
  [name |-> <<84,99,121,59>>, first |-> 1058, second |-> -1], \* 'Tcy;'
  [name |-> <<84,102,114,59>>, first |-> 120087, second |-> -1], \* 'Tfr;'
  [name |-> <<84,104,101,114,101,102,111,114,101,59>>, first |-> 8756, second |-> -1], \* 'Therefore;'
  [name |-> <<84,104,101,116,97,59>>, first |-> 920, second |-> -1], \* 'Theta;'
  [name |-> <<84,104,105,99,107,83,112,97,99,101,59>>, first |-> 8287, second |-> 8202], \* 'ThickSpace;'
  [name |-> <<84,104,105,110,83,112,97,99,101,59>>, first |-> 8201, second |-> -1], \* 'ThinSpace;'
  [name |-> <<84,105,108,100,101,59>>, first |-> 8764, second |-> -1], \* 'Tilde;'
  [name |-> <<84,105,108,100,101,69,113,117,97,108,59>>, first |-> 8771, second |-> -1], \* 'TildeEqual;'
  [name |-> <<84,105,108,100,101,70,117,108,108,69,113,117,97,108,59>>, first |-> 8773, second |-> -1], \* 'TildeFullEqual;'
  [name |-> <<84,105,108,100,101,84,105,108,100,101,59>>, first |-> 8776, second |-> -1], \* 'TildeTilde;'
  [name |-> <<84,111,112,102,59>>, first |-> 120139, second |-> -1], \* 'Topf;'
  [name |-> <<84,114,105,112,108,101,68,111,116,59>>, first |-> 8411, second |-> -1], \* 'TripleDot;'
  [name |-> <<84,115,99,114,59>>, first |-> 119983, second |-> -1], \* 'Tscr;'
  [name |-> <<84,115,116,114,111,107,59>>, first |-> 358, second |-> -1], \* 'Tstrok;'
  [name |-> <<85,97,99,117,116,101,59>>, first |-> 218, second |-> -1], \* 'Uacute;'
  [name |-> <<85,97,99,117,116,101>>, first |-> 218, second |-> -1], \* 'Uacute'
  [name |-> <<85,97,114,114,59>>, first |-> 8607, second |-> -1], \* 'Uarr;'
  [name |-> <<85,97,114,114,111,99,105,114,59>>, first |-> 10569, second |-> -1], \* 'Uarrocir;'
  [name |-> <<85,98,114,99,121,59>>, first |-> 1038, second |-> -1], \* 'Ubrcy;'
  [name |-> <<85,98,114,101,118,101,59>>, first |-> 364, second |-> -1], \* 'Ubreve;'
  [name |-> <<85,99,105,114,99,59>>, first |-> 219, second |-> -1], \* 'Ucirc;'
  [name |-> <<85,99,105,114,99>>, first |-> 219, second |-> -1], \* 'Ucirc'
  [name |-> <<85,99,121,59>>, first |-> 1059, second |-> -1], \* 'Ucy;'
  [name |-> <<85,100,98,108,97,99,59>>, first |-> 368, second |-> -1], \* 'Udblac;'
  [name |-> <<85,102,114,59>>, first |-> 120088, second |-> -1], \* 'Ufr;'
  [name |-> <<85,103,114,97,118,101,59>>, first |-> 217, second |-> -1], \* 'Ugrave;'
  [name |-> <<85,103,114,97,118,101>>, first |-> 217, second |-> -1], \* 'Ugrave'
  [name |-> <<85,109,97,99,114,59>>, first |-> 362, second |-> -1], \* 'Umacr;'
  [name |-> <<85,110,100,101,114,66,97,114,59>>, first |-> 95, second |-> -1], \* 'UnderBar;'
  [name |-> <<85,110,100,101,114,66,114,97,99,101,59>>, first |-> 9183, second |-> -1], \* 'UnderBrace;'
  [name |-> <<85,110,100,101,114,66,114,97,99,107,101,116,59>>, first |-> 9141, second |-> -1], \* 'UnderBracket;'
  [name |-> <<85,110,100,101,114,80,97,114,101,110,116,104,101,115,105,115,59>>, first |-> 9181, second |-> -1], \* 'UnderParenthesis;'
  [name |-> <<85,110,105,111,110,59>>, first |-> 8899, second |-> -1], \* 'Union;'
  [name |-> <<85,110,105,111,110,80,108,117,115,59>>, first |-> 8846, second |-> -1], \* 'UnionPlus;'
  [name |-> <<85,111,103,111,110,59>>, first |-> 370, second |-> -1], \* 'Uogon;'
  [name |-> <<85,111,112,102,59>>, first |-> 120140, second |-> -1], \* 'Uopf;'
  [name |-> <<85,112,65,114,114,111,119,59>>, first |-> 8593, second |-> -1], \* 'UpArrow;'
  [name |-> <<85,112,65,114,114,111,119,66,97,114,59>>, first |-> 10514, second |-> -1], \* 'UpArrowBar;'
  [name |-> <<85,112,65,114,114,111,119,68,111,119,110,65,114,114,111,119,59>>, first |-> 8645, second |-> -1], \* 'UpArrowDownArrow;'
  [name |-> <<85,112,68,111,119,110,65,114,114,111,119,59>>, first |-> 8597, second |-> -1], \* 'UpDownArrow;'
  [name |-> <<85,112,69,113,117,105,108,105,98,114,105,117,109,59>>, first |-> 10606, second |-> -1], \* 'UpEquilibrium;'
  [name |-> <<85,112,84,101,101,59>>, first |-> 8869, second |-> -1], \* 'UpTee;'
  [name |-> <<85,112,84,101,101,65,114,114,111,119,59>>, first |-> 8613, second |-> -1], \* 'UpTeeArrow;'
  [name |-> <<85,112,97,114,114,111,119,59>>, first |-> 8657, second |-> -1], \* 'Uparrow;'
  [name |-> <<85,112,100,111,119,110,97,114,114,111,119,59>>, first |-> 8661, second |-> -1], \* 'Updownarrow;'
  [name |-> <<85,112,112,101,114,76,101,102,116,65,114,114,111,119,59>>, first |-> 8598, second |-> -1], \* 'UpperLeftArrow;'
  [name |-> <<85,112,112,101,114,82,105,103,104,116,65,114,114,111,119,59>>, first |-> 8599, second |-> -1], \* 'UpperRightArrow;'
  [name |-> <<85,112,115,105,59>>, first |-> 978, second |-> -1], \* 'Upsi;'
  [name |-> <<85,112,115,105,108,111,110,59>>, first |-> 933, second |-> -1], \* 'Upsilon;'
  [name |-> <<85,114,105,110,103,59>>, first |-> 366, second |-> -1], \* 'Uring;'
  [name |-> <<85,115,99,114,59>>, first |-> 119984, second |-> -1], \* 'Uscr;'
  [name |-> <<85,116,105,108,100,101,59>>, first |-> 360, second |-> -1], \* 'Utilde;'
  [name |-> <<85,117,109,108,59>>, first |-> 220, second |-> -1], \* 'Uuml;'
  [name |-> <<85,117,109,108>>, first |-> 220, second |-> -1], \* 'Uuml'
  [name |-> <<86,68,97,115,104,59>>, first |-> 8875, second |-> -1], \* 'VDash;'
  [name |-> <<86,98,97,114,59>>, first |-> 10987, second |-> -1], \* 'Vbar;'
  [name |-> <<86,99,121,59>>, first |-> 1042, second |-> -1], \* 'Vcy;'
  [name |-> <<86,100,97,115,104,59>>, first |-> 8873, second |-> -1], \* 'Vdash;'
  [name |-> <<86,100,97,115,104,108,59>>, first |-> 10982, second |-> -1], \* 'Vdashl;'
  [name |-> <<86,101,101,59>>, first |-> 8897, second |-> -1], \* 'Vee;'
  [name |-> <<86,101,114,98,97,114,59>>, first |-> 8214, second |-> -1], \* 'Verbar;'
  [name |-> <<86,101,114,116,59>>, first |-> 8214, second |-> -1], \* 'Vert;'
  [name |-> <<86,101,114,116,105,99,97,108,66,97,114,59>>, first |-> 8739, second |-> -1], \* 'VerticalBar;'
  [name |-> <<86,101,114,116,105,99,97,108,76,105,110,101,59>>, first |-> 124, second |-> -1], \* 'VerticalLine;'
  [name |-> <<86,101,114,116,105,99,97,108,83,101,112,97,114,97,116,111,114,59>>, first |-> 10072, second |-> -1], \* 'VerticalSeparator;'
  [name |-> <<86,101,114,116,105,99,97,108,84,105,108,100,101,59>>, first |-> 8768, second |-> -1], \* 'VerticalTilde;'
  [name |-> <<86,101,114,121,84,104,105,110,83,112,97,99,101,59>>, first |-> 8202, second |-> -1], \* 'VeryThinSpace;'
  [name |-> <<86,102,114,59>>, first |-> 120089, second |-> -1], \* 'Vfr;'
  [name |-> <<86,111,112,102,59>>, first |-> 120141, second |-> -1], \* 'Vopf;'
  [name |-> <<86,115,99,114,59>>, first |-> 119985, second |-> -1], \* 'Vscr;'
  [name |-> <<86,118,100,97,115,104,59>>, first |-> 8874, second |-> -1], \* 'Vvdash;'
  [name |-> <<87,99,105,114,99,59>>, first |-> 372, second |-> -1], \* 'Wcirc;'
  [name |-> <<87,101,100,103,101,59>>, first |-> 8896, second |-> -1], \* 'Wedge;'
  [name |-> <<87,102,114,59>>, first |-> 120090, second |-> -1], \* 'Wfr;'
  [name |-> <<87,111,112,102,59>>, first |-> 120142, second |-> -1], \* 'Wopf;'
  [name |-> <<87,115,99,114,59>>, first |-> 119986, second |-> -1], \* 'Wscr;'
  [name |-> <<88,102,114,59>>, first |-> 120091, second |-> -1], \* 'Xfr;'
  [name |-> <<88,105,59>>, first |-> 926, second |-> -1], \* 'Xi;'
  [name |-> <<88,111,112,102,59>>, first |-> 120143, second |-> -1], \* 'Xopf;'
  [name |-> <<88,115,99,114,59>>, first |-> 119987, second |-> -1], \* 'Xscr;'
  [name |-> <<89,65,99,121,59>>, first |-> 1071, second |-> -1], \* 'YAcy;'
  [name |-> <<89,73,99,121,59>>, first |-> 1031, second |-> -1], \* 'YIcy;'
  [name |-> <<89,85,99,121,59>>, first |-> 1070, second |-> -1], \* 'YUcy;'
  [name |-> <<89,97,99,117,116,101,59>>, first |-> 221, second |-> -1], \* 'Yacute;'
  [name |-> <<89,97,99,117,116,101>>, first |-> 221, second |-> -1], \* 'Yacute'
  [name |-> <<89,99,105,114,99,59>>, first |-> 374, second |-> -1], \* 'Ycirc;'
  [name |-> <<89,99,121,59>>, first |-> 1067, second |-> -1], \* 'Ycy;'
  [name |-> <<89,102,114,59>>, first |-> 120092, second |-> -1], \* 'Yfr;'
  [name |-> <<89,111,112,102,59>>, first |-> 120144, second |-> -1], \* 'Yopf;'
  [name |-> <<89,115,99,114,59>>, first |-> 119988, second |-> -1], \* 'Yscr;'
  [name |-> <<89,117,109,108,59>>, first |-> 376, second |-> -1], \* 'Yuml;'
  [name |-> <<90,72,99,121,59>>, first |-> 1046, second |-> -1], \* 'ZHcy;'
  [name |-> <<90,97,99,117,116,101,59>>, first |-> 377, second |-> -1], \* 'Zacute;'
  [name |-> <<90,99,97,114,111,110,59>>, first |-> 381, second |-> -1], \* 'Zcaron;'
  [name |-> <<90,99,121,59>>, first |-> 1047, second |-> -1], \* 'Zcy;'
  [name |-> <<90,100,111,116,59>>, first |-> 379, second |-> -1], \* 'Zdot;'
  [name |-> <<90,101,114,111,87,105,100,116,104,83,112,97,99,101,59>>, first |-> 8203, second |-> -1], \* 'ZeroWidthSpace;'
  [name |-> <<90,101,116,97,59>>, first |-> 918, second |-> -1], \* 'Zeta;'
  [name |-> <<90,102,114,59>>, first |-> 8488, second |-> -1], \* 'Zfr;'
  [name |-> <<90,111,112,102,59>>, first |-> 8484, second |-> -1], \* 'Zopf;'
  [name |-> <<90,115,99,114,59>>, first |-> 119989, second |-> -1], \* 'Zscr;'
  [name |-> <<97,97,99,117,116,101,59>>, first |-> 225, second |-> -1], \* 'aacute;'
  [name |-> <<97,97,99,117,116,101>>, first |-> 225, second |-> -1], \* 'aacute'
  [name |-> <<97,98,114,101,118,101,59>>, first |-> 259, second |-> -1], \* 'abreve;'
  [name |-> <<97,99,59>>, first |-> 8766, second |-> -1], \* 'ac;'
  [name |-> <<97,99,69,59>>, first |-> 8766, second |-> 819], \* 'acE;'
  [name |-> <<97,99,100,59>>, first |-> 8767, second |-> -1], \* 'acd;'
  [name |-> <<97,99,105,114,99,59>>, first |-> 226, second |-> -1], \* 'acirc;'
  [name |-> <<97,99,105,114,99>>, first |-> 226, second |-> -1], \* 'acirc'
  [name |-> <<97,99,117,116,101,59>>, first |-> 180, second |-> -1], \* 'acute;'
  [name |-> <<97,99,117,116,101>>, first |-> 180, second |-> -1], \* 'acute'
  [name |-> <<97,99,121,59>>, first |-> 1072, second |-> -1], \* 'acy;'
  [name |-> <<97,101,108,105,103,59>>, first |-> 230, second |-> -1], \* 'aelig;'
  [name |-> <<97,101,108,105,103>>, first |-> 230, second |-> -1], \* 'aelig'
  [name |-> <<97,102,59>>, first |-> 8289, second |-> -1], \* 'af;'
  [name |-> <<97,102,114,59>>, first |-> 120094, second |-> -1], \* 'afr;'
  [name |-> <<97,103,114,97,118,101,59>>, first |-> 224, second |-> -1], \* 'agrave;'
  [name |-> <<97,103,114,97,118,101>>, first |-> 224, second |-> -1], \* 'agrave'
  [name |-> <<97,108,101,102,115,121,109,59>>, first |-> 8501, second |-> -1], \* 'alefsym;'
  [name |-> <<97,108,101,112,104,59>>, first |-> 8501, second |-> -1], \* 'aleph;'
  [name |-> <<97,108,112,104,97,59>>, first |-> 945, second |-> -1], \* 'alpha;'
  [name |-> <<97,109,97,99,114,59>>, first |-> 257, second |-> -1], \* 'amacr;'
  [name |-> <<97,109,97,108,103,59>>, first |-> 10815, second |-> -1], \* 'amalg;'
  [name |-> <<97,109,112,59>>, first |-> 38, second |-> -1], \* 'amp;'
  [name |-> <<97,109,112>>, first |-> 38, second |-> -1], \* 'amp'
  [name |-> <<97,110,100,59>>, first |-> 8743, second |-> -1], \* 'and;'
  [name |-> <<97,110,100,97,110,100,59>>, first |-> 10837, second |-> -1], \* 'andand;'
  [name |-> <<97,110,100,100,59>>, first |-> 10844, second |-> -1], \* 'andd;'
  [name |-> <<97,110,100,115,108,111,112,101,59>>, first |-> 10840, second |-> -1], \* 'andslope;'
  [name |-> <<97,110,100,118,59>>, first |-> 10842, second |-> -1], \* 'andv;'
  [name |-> <<97,110,103,59>>, first |-> 8736, second |-> -1], \* 'ang;'
  [name |-> <<97,110,103,101,59>>, first |-> 10660, second |-> -1], \* 'ange;'
  [name |-> <<97,110,103,108,101,59>>, first |-> 8736, second |-> -1], \* 'angle;'
  [name |-> <<97,110,103,109,115,100,59>>, first |-> 8737, second |-> -1], \* 'angmsd;'
  [name |-> <<97,110,103,109,115,100,97,97,59>>, first |-> 10664, second |-> -1], \* 'angmsdaa;'
  [name |-> <<97,110,103,109,115,100,97,98,59>>, first |-> 10665, second |-> -1], \* 'angmsdab;'
  [name |-> <<97,110,103,109,115,100,97,99,59>>, first |-> 10666, second |-> -1], \* 'angmsdac;'
  [name |-> <<97,110,103,109,115,100,97,100,59>>, first |-> 10667, second |-> -1], \* 'angmsdad;'
  [name |-> <<97,110,103,109,115,100,97,101,59>>, first |-> 10668, second |-> -1], \* 'angmsdae;'
  [name |-> <<97,110,103,109,115,100,97,102,59>>, first |-> 10669, second |-> -1], \* 'angmsdaf;'
  [name |-> <<97,110,103,109,115,100,97,103,59>>, first |-> 10670, second |-> -1], \* 'angmsdag;'
  [name |-> <<97,110,103,109,115,100,97,104,59>>, first |-> 10671, second |-> -1], \* 'angmsdah;'
  [name |-> <<97,110,103,114,116,59>>, first |-> 8735, second |-> -1], \* 'angrt;'
  [name |-> <<97,110,103,114,116,118,98,59>>, first |-> 8894, second |-> -1], \* 'angrtvb;'
  [name |-> <<97,110,103,114,116,118,98,100,59>>, first |-> 10653, second |-> -1], \* 'angrtvbd;'
  [name |-> <<97,110,103,115,112,104,59>>, first |-> 8738, second |-> -1], \* 'angsph;'
  [name |-> <<97,110,103,115,116,59>>, first |-> 197, second |-> -1], \* 'angst;'
  [name |-> <<97,110,103,122,97,114,114,59>>, first |-> 9084, second |-> -1], \* 'angzarr;'
  [name |-> <<97,111,103,111,110,59>>, first |-> 261, second |-> -1], \* 'aogon;'
  [name |-> <<97,111,112,102,59>>, first |-> 120146, second |-> -1], \* 'aopf;'
  [name |-> <<97,112,59>>, first |-> 8776, second |-> -1], \* 'ap;'
  [name |-> <<97,112,69,59>>, first |-> 10864, second |-> -1], \* 'apE;'
  [name |-> <<97,112,97,99,105,114,59>>, first |-> 10863, second |-> -1], \* 'apacir;'
  [name |-> <<97,112,101,59>>, first |-> 8778, second |-> -1], \* 'ape;'
  [name |-> <<97,112,105,100,59>>, first |-> 8779, second |-> -1], \* 'apid;'
  [name |-> <<97,112,111,115,59>>, first |-> 39, second |-> -1], \* 'apos;'
  [name |-> <<97,112,112,114,111,120,59>>, first |-> 8776, second |-> -1], \* 'approx;'
  [name |-> <<97,112,112,114,111,120,101,113,59>>, first |-> 8778, second |-> -1], \* 'approxeq;'
  [name |-> <<97,114,105,110,103,59>>, first |-> 229, second |-> -1], \* 'aring;'
  [name |-> <<97,114,105,110,103>>, first |-> 229, second |-> -1], \* 'aring'
  [name |-> <<97,115,99,114,59>>, first |-> 119990, second |-> -1], \* 'ascr;'
  [name |-> <<97,115,116,59>>, first |-> 42, second |-> -1], \* 'ast;'
  [name |-> <<97,115,121,109,112,59>>, first |-> 8776, second |-> -1], \* 'asymp;'
  [name |-> <<97,115,121,109,112,101,113,59>>, first |-> 8781, second |-> -1], \* 'asympeq;'
  [name |-> <<97,116,105,108,100,101,59>>, first |-> 227, second |-> -1], \* 'atilde;'
  [name |-> <<97,116,105,108,100,101>>, first |-> 227, second |-> -1], \* 'atilde'
  [name |-> <<97,117,109,108,59>>, first |-> 228, second |-> -1], \* 'auml;'
  [name |-> <<97,117,109,108>>, first |-> 228, second |-> -1], \* 'auml'
  [name |-> <<97,119,99,111,110,105,110,116,59>>, first |-> 8755, second |-> -1], \* 'awconint;'
  [name |-> <<97,119,105,110,116,59>>, first |-> 10769, second |-> -1], \* 'awint;'
  [name |-> <<98,78,111,116,59>>, first |-> 10989, second |-> -1], \* 'bNot;'
  [name |-> <<98,97,99,107,99,111,110,103,59>>, first |-> 8780, second |-> -1], \* 'backcong;'
  [name |-> <<98,97,99,107,101,112,115,105,108,111,110,59>>, first |-> 1014, second |-> -1], \* 'backepsilon;'
  [name |-> <<98,97,99,107,112,114,105,109,101,59>>, first |-> 8245, second |-> -1], \* 'backprime;'
  [name |-> <<98,97,99,107,115,105,109,59>>, first |-> 8765, second |-> -1], \* 'backsim;'
  [name |-> <<98,97,99,107,115,105,109,101,113,59>>, first |-> 8909, second |-> -1], \* 'backsimeq;'
  [name |-> <<98,97,114,118,101,101,59>>, first |-> 8893, second |-> -1], \* 'barvee;'
  [name |-> <<98,97,114,119,101,100,59>>, first |-> 8965, second |-> -1], \* 'barwed;'
  [name |-> <<98,97,114,119,101,100,103,101,59>>, first |-> 8965, second |-> -1], \* 'barwedge;'
  [name |-> <<98,98,114,107,59>>, first |-> 9141, second |-> -1], \* 'bbrk;'
  [name |-> <<98,98,114,107,116,98,114,107,59>>, first |-> 9142, second |-> -1], \* 'bbrktbrk;'
  [name |-> <<98,99,111,110,103,59>>, first |-> 8780, second |-> -1], \* 'bcong;'
  [name |-> <<98,99,121,59>>, first |-> 1073, second |-> -1], \* 'bcy;'
  [name |-> <<98,100,113,117,111,59>>, first |-> 8222, second |-> -1], \* 'bdquo;'
  [name |-> <<98,101,99,97,117,115,59>>, first |-> 8757, second |-> -1], \* 'becaus;'
  [name |-> <<98,101,99,97,117,115,101,59>>, first |-> 8757, second |-> -1], \* 'because;'
  [name |-> <<98,101,109,112,116,121,118,59>>, first |-> 10672, second |-> -1], \* 'bemptyv;'
  [name |-> <<98,101,112,115,105,59>>, first |-> 1014, second |-> -1], \* 'bepsi;'
  [name |-> <<98,101,114,110,111,117,59>>, first |-> 8492, second |-> -1], \* 'bernou;'
  [name |-> <<98,101,116,97,59>>, first |-> 946, second |-> -1], \* 'beta;'
  [name |-> <<98,101,116,104,59>>, first |-> 8502, second |-> -1], \* 'beth;'
  [name |-> <<98,101,116,119,101,101,110,59>>, first |-> 8812, second |-> -1], \* 'between;'
  [name |-> <<98,102,114,59>>, first |-> 120095, second |-> -1], \* 'bfr;'
  [name |-> <<98,105,103,99,97,112,59>>, first |-> 8898, second |-> -1], \* 'bigcap;'
  [name |-> <<98,105,103,99,105,114,99,59>>, first |-> 9711, second |-> -1], \* 'bigcirc;'
  [name |-> <<98,105,103,99,117,112,59>>, first |-> 8899, second |-> -1], \* 'bigcup;'
  [name |-> <<98,105,103,111,100,111,116,59>>, first |-> 10752, second |-> -1], \* 'bigodot;'
  [name |-> <<98,105,103,111,112,108,117,115,59>>, first |-> 10753, second |-> -1], \* 'bigoplus;'
  [name |-> <<98,105,103,111,116,105,109,101,115,59>>, first |-> 10754, second |-> -1], \* 'bigotimes;'
  [name |-> <<98,105,103,115,113,99,117,112,59>>, first |-> 10758, second |-> -1], \* 'bigsqcup;'
  [name |-> <<98,105,103,115,116,97,114,59>>, first |-> 9733, second |-> -1], \* 'bigstar;'
  [name |-> <<98,105,103,116,114,105,97,110,103,108,101,100,111,119,110,59>>, first |-> 9661, second |-> -1], \* 'bigtriangledown;'
  [name |-> <<98,105,103,116,114,105,97,110,103,108,101,117,112,59>>, first |-> 9651, second |-> -1], \* 'bigtriangleup;'
  [name |-> <<98,105,103,117,112,108,117,115,59>>, first |-> 10756, second |-> -1], \* 'biguplus;'
  [name |-> <<98,105,103,118,101,101,59>>, first |-> 8897, second |-> -1], \* 'bigvee;'
  [name |-> <<98,105,103,119,101,100,103,101,59>>, first |-> 8896, second |-> -1], \* 'bigwedge;'
  [name |-> <<98,107,97,114,111,119,59>>, first |-> 10509, second |-> -1], \* 'bkarow;'
  [name |-> <<98,108,97,99,107,108,111,122,101,110,103,101,59>>, first |-> 10731, second |-> -1], \* 'blacklozenge;'
  [name |-> <<98,108,97,99,107,115,113,117,97,114,101,59>>, first |-> 9642, second |-> -1], \* 'blacksquare;'
  [name |-> <<98,108,97,99,107,116,114,105,97,110,103,108,101,59>>, first |-> 9652, second |-> -1], \* 'blacktriangle;'
  [name |-> <<98,108,97,99,107,116,114,105,97,110,103,108,101,100,111,119,110,59>>, first |-> 9662, second |-> -1], \* 'blacktriangledown;'
  [name |-> <<98,108,97,99,107,116,114,105,97,110,103,108,101,108,101,102,116,59>>, first |-> 9666, second |-> -1], \* 'blacktriangleleft;'
  [name |-> <<98,108,97,99,107,116,114,105,97,110,103,108,101,114,105,103,104,116,59>>, first |-> 9656, second |-> -1], \* 'blacktriangleright;'
  [name |-> <<98,108,97,110,107,59>>, first |-> 9251, second |-> -1], \* 'blank;'
  [name |-> <<98,108,107,49,50,59>>, first |-> 9618, second |-> -1], \* 'blk12;'
  [name |-> <<98,108,107,49,52,59>>, first |-> 9617, second |-> -1], \* 'blk14;'
  [name |-> <<98,108,107,51,52,59>>, first |-> 9619, second |-> -1], \* 'blk34;'
  [name |-> <<98,108,111,99,107,59>>, first |-> 9608, second |-> -1], \* 'block;'
  [name |-> <<98,110,101,59>>, first |-> 61, second |-> 8421], \* 'bne;'
  [name |-> <<98,110,101,113,117,105,118,59>>, first |-> 8801, second |-> 8421], \* 'bnequiv;'
  [name |-> <<98,110,111,116,59>>, first |-> 8976, second |-> -1], \* 'bnot;'
  [name |-> <<98,111,112,102,59>>, first |-> 120147, second |-> -1], \* 'bopf;'
  [name |-> <<98,111,116,59>>, first |-> 8869, second |-> -1], \* 'bot;'
  [name |-> <<98,111,116,116,111,109,59>>, first |-> 8869, second |-> -1], \* 'bottom;'
  [name |-> <<98,111,119,116,105,101,59>>, first |-> 8904, second |-> -1], \* 'bowtie;'
  [name |-> <<98,111,120,68,76,59>>, first |-> 9559, second |-> -1], \* 'boxDL;'
  [name |-> <<98,111,120,68,82,59>>, first |-> 9556, second |-> -1], \* 'boxDR;'
  [name |-> <<98,111,120,68,108,59>>, first |-> 9558, second |-> -1], \* 'boxDl;'
  [name |-> <<98,111,120,68,114,59>>, first |-> 9555, second |-> -1], \* 'boxDr;'
  [name |-> <<98,111,120,72,59>>, first |-> 9552, second |-> -1], \* 'boxH;'
  [name |-> <<98,111,120,72,68,59>>, first |-> 9574, second |-> -1], \* 'boxHD;'
  [name |-> <<98,111,120,72,85,59>>, first |-> 9577, second |-> -1], \* 'boxHU;'
  [name |-> <<98,111,120,72,100,59>>, first |-> 9572, second |-> -1], \* 'boxHd;'
  [name |-> <<98,111,120,72,117,59>>, first |-> 9575, second |-> -1], \* 'boxHu;'
  [name |-> <<98,111,120,85,76,59>>, first |-> 9565, second |-> -1], \* 'boxUL;'
  [name |-> <<98,111,120,85,82,59>>, first |-> 9562, second |-> -1], \* 'boxUR;'
  [name |-> <<98,111,120,85,108,59>>, first |-> 9564, second |-> -1], \* 'boxUl;'
  [name |-> <<98,111,120,85,114,59>>, first |-> 9561, second |-> -1], \* 'boxUr;'
  [name |-> <<98,111,120,86,59>>, first |-> 9553, second |-> -1], \* 'boxV;'
  [name |-> <<98,111,120,86,72,59>>, first |-> 9580, second |-> -1], \* 'boxVH;'
  [name |-> <<98,111,120,86,76,59>>, first |-> 9571, second |-> -1], \* 'boxVL;'
  [name |-> <<98,111,120,86,82,59>>, first |-> 9568, second |-> -1], \* 'boxVR;'
  [name |-> <<98,111,120,86,104,59>>, first |-> 9579, second |-> -1], \* 'boxVh;'
  [name |-> <<98,111,120,86,108,59>>, first |-> 9570, second |-> -1], \* 'boxVl;'
  [name |-> <<98,111,120,86,114,59>>, first |-> 9567, second |-> -1], \* 'boxVr;'
  [name |-> <<98,111,120,98,111,120,59>>, first |-> 10697, second |-> -1], \* 'boxbox;'
  [name |-> <<98,111,120,100,76,59>>, first |-> 9557, second |-> -1], \* 'boxdL;'
  [name |-> <<98,111,120,100,82,59>>, first |-> 9554, second |-> -1], \* 'boxdR;'
  [name |-> <<98,111,120,100,108,59>>, first |-> 9488, second |-> -1], \* 'boxdl;'
  [name |-> <<98,111,120,100,114,59>>, first |-> 9484, second |-> -1], \* 'boxdr;'
  [name |-> <<98,111,120,104,59>>, first |-> 9472, second |-> -1], \* 'boxh;'
  [name |-> <<98,111,120,104,68,59>>, first |-> 9573, second |-> -1], \* 'boxhD;'
  [name |-> <<98,111,120,104,85,59>>, first |-> 9576, second |-> -1], \* 'boxhU;'
  [name |-> <<98,111,120,104,100,59>>, first |-> 9516, second |-> -1], \* 'boxhd;'
  [name |-> <<98,111,120,104,117,59>>, first |-> 9524, second |-> -1], \* 'boxhu;'
  [name |-> <<98,111,120,109,105,110,117,115,59>>, first |-> 8863, second |-> -1], \* 'boxminus;'
  [name |-> <<98,111,120,112,108,117,115,59>>, first |-> 8862, second |-> -1], \* 'boxplus;'
  [name |-> <<98,111,120,116,105,109,101,115,59>>, first |-> 8864, second |-> -1], \* 'boxtimes;'
  [name |-> <<98,111,120,117,76,59>>, first |-> 9563, second |-> -1], \* 'boxuL;'
  [name |-> <<98,111,120,117,82,59>>, first |-> 9560, second |-> -1], \* 'boxuR;'
  [name |-> <<98,111,120,117,108,59>>, first |-> 9496, second |-> -1], \* 'boxul;'
  [name |-> <<98,111,120,117,114,59>>, first |-> 9492, second |-> -1], \* 'boxur;'
  [name |-> <<98,111,120,118,59>>, first |-> 9474, second |-> -1], \* 'boxv;'
  [name |-> <<98,111,120,118,72,59>>, first |-> 9578, second |-> -1], \* 'boxvH;'
  [name |-> <<98,111,120,118,76,59>>, first |-> 9569, second |-> -1], \* 'boxvL;'
  [name |-> <<98,111,120,118,82,59>>, first |-> 9566, second |-> -1], \* 'boxvR;'
  [name |-> <<98,111,120,118,104,59>>, first |-> 9532, second |-> -1], \* 'boxvh;'
  [name |-> <<98,111,120,118,108,59>>, first |-> 9508, second |-> -1], \* 'boxvl;'
  [name |-> <<98,111,120,118,114,59>>, first |-> 9500, second |-> -1], \* 'boxvr;'
  [name |-> <<98,112,114,105,109,101,59>>, first |-> 8245, second |-> -1], \* 'bprime;'
  [name |-> <<98,114,101,118,101,59>>, first |-> 728, second |-> -1], \* 'breve;'
  [name |-> <<98,114,118,98,97,114,59>>, first |-> 166, second |-> -1], \* 'brvbar;'
  [name |-> <<98,114,118,98,97,114>>, first |-> 166, second |-> -1], \* 'brvbar'
  [name |-> <<98,115,99,114,59>>, first |-> 119991, second |-> -1], \* 'bscr;'
  [name |-> <<98,115,101,109,105,59>>, first |-> 8271, second |-> -1], \* 'bsemi;'
  [name |-> <<98,115,105,109,59>>, first |-> 8765, second |-> -1], \* 'bsim;'
  [name |-> <<98,115,105,109,101,59>>, first |-> 8909, second |-> -1], \* 'bsime;'
  [name |-> <<98,115,111,108,59>>, first |-> 92, second |-> -1], \* 'bsol;'
  [name |-> <<98,115,111,108,98,59>>, first |-> 10693, second |-> -1], \* 'bsolb;'
  [name |-> <<98,115,111,108,104,115,117,98,59>>, first |-> 10184, second |-> -1], \* 'bsolhsub;'
  [name |-> <<98,117,108,108,59>>, first |-> 8226, second |-> -1], \* 'bull;'
  [name |-> <<98,117,108,108,101,116,59>>, first |-> 8226, second |-> -1], \* 'bullet;'
  [name |-> <<98,117,109,112,59>>, first |-> 8782, second |-> -1], \* 'bump;'
  [name |-> <<98,117,109,112,69,59>>, first |-> 10926, second |-> -1], \* 'bumpE;'
  [name |-> <<98,117,109,112,101,59>>, first |-> 8783, second |-> -1], \* 'bumpe;'
  [name |-> <<98,117,109,112,101,113,59>>, first |-> 8783, second |-> -1], \* 'bumpeq;'
  [name |-> <<99,97,99,117,116,101,59>>, first |-> 263, second |-> -1], \* 'cacute;'
  [name |-> <<99,97,112,59>>, first |-> 8745, second |-> -1], \* 'cap;'
  [name |-> <<99,97,112,97,110,100,59>>, first |-> 10820, second |-> -1], \* 'capand;'
  [name |-> <<99,97,112,98,114,99,117,112,59>>, first |-> 10825, second |-> -1], \* 'capbrcup;'
  [name |-> <<99,97,112,99,97,112,59>>, first |-> 10827, second |-> -1], \* 'capcap;'
  [name |-> <<99,97,112,99,117,112,59>>, first |-> 10823, second |-> -1], \* 'capcup;'
  [name |-> <<99,97,112,100,111,116,59>>, first |-> 10816, second |-> -1], \* 'capdot;'
  [name |-> <<99,97,112,115,59>>, first |-> 8745, second |-> 65024], \* 'caps;'
  [name |-> <<99,97,114,101,116,59>>, first |-> 8257, second |-> -1], \* 'caret;'
  [name |-> <<99,97,114,111,110,59>>, first |-> 711, second |-> -1], \* 'caron;'
  [name |-> <<99,99,97,112,115,59>>, first |-> 10829, second |-> -1], \* 'ccaps;'
  [name |-> <<99,99,97,114,111,110,59>>, first |-> 269, second |-> -1], \* 'ccaron;'
  [name |-> <<99,99,101,100,105,108,59>>, first |-> 231, second |-> -1], \* 'ccedil;'
  [name |-> <<99,99,101,100,105,108>>, first |-> 231, second |-> -1], \* 'ccedil'
  [name |-> <<99,99,105,114,99,59>>, first |-> 265, second |-> -1], \* 'ccirc;'
  [name |-> <<99,99,117,112,115,59>>, first |-> 10828, second |-> -1], \* 'ccups;'
  [name |-> <<99,99,117,112,115,115,109,59>>, first |-> 10832, second |-> -1], \* 'ccupssm;'
  [name |-> <<99,100,111,116,59>>, first |-> 267, second |-> -1], \* 'cdot;'
  [name |-> <<99,101,100,105,108,59>>, first |-> 184, second |-> -1], \* 'cedil;'
  [name |-> <<99,101,100,105,108>>, first |-> 184, second |-> -1], \* 'cedil'
  [name |-> <<99,101,109,112,116,121,118,59>>, first |-> 10674, second |-> -1], \* 'cemptyv;'
  [name |-> <<99,101,110,116,59>>, first |-> 162, second |-> -1], \* 'cent;'
  [name |-> <<99,101,110,116>>, first |-> 162, second |-> -1], \* 'cent'
  [name |-> <<99,101,110,116,101,114,100,111,116,59>>, first |-> 183, second |-> -1], \* 'centerdot;'
  [name |-> <<99,102,114,59>>, first |-> 120096, second |-> -1], \* 'cfr;'
  [name |-> <<99,104,99,121,59>>, first |-> 1095, second |-> -1], \* 'chcy;'
  [name |-> <<99,104,101,99,107,59>>, first |-> 10003, second |-> -1], \* 'check;'
  [name |-> <<99,104,101,99,107,109,97,114,107,59>>, first |-> 10003, second |-> -1], \* 'checkmark;'
  [name |-> <<99,104,105,59>>, first |-> 967, second |-> -1], \* 'chi;'
  [name |-> <<99,105,114,59>>, first |-> 9675, second |-> -1], \* 'cir;'
  [name |-> <<99,105,114,69,59>>, first |-> 10691, second |-> -1], \* 'cirE;'
  [name |-> <<99,105,114,99,59>>, first |-> 710, second |-> -1], \* 'circ;'
  [name |-> <<99,105,114,99,101,113,59>>, first |-> 8791, second |-> -1], \* 'circeq;'
  [name |-> <<99,105,114,99,108,101,97,114,114,111,119,108,101,102,116,59>>, first |-> 8634, second |-> -1], \* 'circlearrowleft;'
  [name |-> <<99,105,114,99,108,101,97,114,114,111,119,114,105,103,104,116,59>>, first |-> 8635, second |-> -1], \* 'circlearrowright;'
  [name |-> <<99,105,114,99,108,101,100,82,59>>, first |-> 174, second |-> -1], \* 'circledR;'
  [name |-> <<99,105,114,99,108,101,100,83,59>>, first |-> 9416, second |-> -1], \* 'circledS;'
  [name |-> <<99,105,114,99,108,101,100,97,115,116,59>>, first |-> 8859, second |-> -1], \* 'circledast;'
  [name |-> <<99,105,114,99,108,101,100,99,105,114,99,59>>, first |-> 8858, second |-> -1], \* 'circledcirc;'
  [name |-> <<99,105,114,99,108,101,100,100,97,115,104,59>>, first |-> 8861, second |-> -1], \* 'circleddash;'
  [name |-> <<99,105,114,101,59>>, first |-> 8791, second |-> -1], \* 'cire;'
  [name |-> <<99,105,114,102,110,105,110,116,59>>, first |-> 10768, second |-> -1], \* 'cirfnint;'
  [name |-> <<99,105,114,109,105,100,59>>, first |-> 10991, second |-> -1], \* 'cirmid;'
  [name |-> <<99,105,114,115,99,105,114,59>>, first |-> 10690, second |-> -1], \* 'cirscir;'
  [name |-> <<99,108,117,98,115,59>>, first |-> 9827, second |-> -1], \* 'clubs;'
  [name |-> <<99,108,117,98,115,117,105,116,59>>, first |-> 9827, second |-> -1], \* 'clubsuit;'
  [name |-> <<99,111,108,111,110,59>>, first |-> 58, second |-> -1], \* 'colon;'
  [name |-> <<99,111,108,111,110,101,59>>, first |-> 8788, second |-> -1], \* 'colone;'
  [name |-> <<99,111,108,111,110,101,113,59>>, first |-> 8788, second |-> -1], \* 'coloneq;'
  [name |-> <<99,111,109,109,97,59>>, first |-> 44, second |-> -1], \* 'comma;'
  [name |-> <<99,111,109,109,97,116,59>>, first |-> 64, second |-> -1], \* 'commat;'
  [name |-> <<99,111,109,112,59>>, first |-> 8705, second |-> -1], \* 'comp;'
  [name |-> <<99,111,109,112,102,110,59>>, first |-> 8728, second |-> -1], \* 'compfn;'
  [name |-> <<99,111,109,112,108,101,109,101,110,116,59>>, first |-> 8705, second |-> -1], \* 'complement;'
  [name |-> <<99,111,109,112,108,101,120,101,115,59>>, first |-> 8450, second |-> -1], \* 'complexes;'
  [name |-> <<99,111,110,103,59>>, first |-> 8773, second |-> -1], \* 'cong;'
  [name |-> <<99,111,110,103,100,111,116,59>>, first |-> 10861, second |-> -1], \* 'congdot;'
  [name |-> <<99,111,110,105,110,116,59>>, first |-> 8750, second |-> -1], \* 'conint;'
  [name |-> <<99,111,112,102,59>>, first |-> 120148, second |-> -1], \* 'copf;'
  [name |-> <<99,111,112,114,111,100,59>>, first |-> 8720, second |-> -1], \* 'coprod;'
  [name |-> <<99,111,112,121,59>>, first |-> 169, second |-> -1], \* 'copy;'
  [name |-> <<99,111,112,121>>, first |-> 169, second |-> -1], \* 'copy'
  [name |-> <<99,111,112,121,115,114,59>>, first |-> 8471, second |-> -1], \* 'copysr;'
  [name |-> <<99,114,97,114,114,59>>, first |-> 8629, second |-> -1], \* 'crarr;'
  [name |-> <<99,114,111,115,115,59>>, first |-> 10007, second |-> -1], \* 'cross;'
  [name |-> <<99,115,99,114,59>>, first |-> 119992, second |-> -1], \* 'cscr;'
  [name |-> <<99,115,117,98,59>>, first |-> 10959, second |-> -1], \* 'csub;'
  [name |-> <<99,115,117,98,101,59>>, first |-> 10961, second |-> -1], \* 'csube;'
  [name |-> <<99,115,117,112,59>>, first |-> 10960, second |-> -1], \* 'csup;'
  [name |-> <<99,115,117,112,101,59>>, first |-> 10962, second |-> -1], \* 'csupe;'
  [name |-> <<99,116,100,111,116,59>>, first |-> 8943, second |-> -1], \* 'ctdot;'
  [name |-> <<99,117,100,97,114,114,108,59>>, first |-> 10552, second |-> -1], \* 'cudarrl;'
  [name |-> <<99,117,100,97,114,114,114,59>>, first |-> 10549, second |-> -1], \* 'cudarrr;'
  [name |-> <<99,117,101,112,114,59>>, first |-> 8926, second |-> -1], \* 'cuepr;'
  [name |-> <<99,117,101,115,99,59>>, first |-> 8927, second |-> -1], \* 'cuesc;'
  [name |-> <<99,117,108,97,114,114,59>>, first |-> 8630, second |-> -1], \* 'cularr;'
  [name |-> <<99,117,108,97,114,114,112,59>>, first |-> 10557, second |-> -1], \* 'cularrp;'
  [name |-> <<99,117,112,59>>, first |-> 8746, second |-> -1], \* 'cup;'
  [name |-> <<99,117,112,98,114,99,97,112,59>>, first |-> 10824, second |-> -1], \* 'cupbrcap;'
  [name |-> <<99,117,112,99,97,112,59>>, first |-> 10822, second |-> -1], \* 'cupcap;'
  [name |-> <<99,117,112,99,117,112,59>>, first |-> 10826, second |-> -1], \* 'cupcup;'
  [name |-> <<99,117,112,100,111,116,59>>, first |-> 8845, second |-> -1], \* 'cupdot;'
  [name |-> <<99,117,112,111,114,59>>, first |-> 10821, second |-> -1], \* 'cupor;'
  [name |-> <<99,117,112,115,59>>, first |-> 8746, second |-> 65024], \* 'cups;'
  [name |-> <<99,117,114,97,114,114,59>>, first |-> 8631, second |-> -1], \* 'curarr;'
  [name |-> <<99,117,114,97,114,114,109,59>>, first |-> 10556, second |-> -1], \* 'curarrm;'
  [name |-> <<99,117,114,108,121,101,113,112,114,101,99,59>>, first |-> 8926, second |-> -1], \* 'curlyeqprec;'
  [name |-> <<99,117,114,108,121,101,113,115,117,99,99,59>>, first |-> 8927, second |-> -1], \* 'curlyeqsucc;'
  [name |-> <<99,117,114,108,121,118,101,101,59>>, first |-> 8910, second |-> -1], \* 'curlyvee;'
  [name |-> <<99,117,114,108,121,119,101,100,103,101,59>>, first |-> 8911, second |-> -1], \* 'curlywedge;'
  [name |-> <<99,117,114,114,101,110,59>>, first |-> 164, second |-> -1], \* 'curren;'
  [name |-> <<99,117,114,114,101,110>>, first |-> 164, second |-> -1], \* 'curren'
  [name |-> <<99,117,114,118,101,97,114,114,111,119,108,101,102,116,59>>, first |-> 8630, second |-> -1], \* 'curvearrowleft;'
  [name |-> <<99,117,114,118,101,97,114,114,111,119,114,105,103,104,116,59>>, first |-> 8631, second |-> -1], \* 'curvearrowright;'
  [name |-> <<99,117,118,101,101,59>>, first |-> 8910, second |-> -1], \* 'cuvee;'
  [name |-> <<99,117,119,101,100,59>>, first |-> 8911, second |-> -1], \* 'cuwed;'
  [name |-> <<99,119,99,111,110,105,110,116,59>>, first |-> 8754, second |-> -1], \* 'cwconint;'
  [name |-> <<99,119,105,110,116,59>>, first |-> 8753, second |-> -1], \* 'cwint;'
  [name |-> <<99,121,108,99,116,121,59>>, first |-> 9005, second |-> -1], \* 'cylcty;'
  [name |-> <<100,65,114,114,59>>, first |-> 8659, second |-> -1], \* 'dArr;'
  [name |-> <<100,72,97,114,59>>, first |-> 10597, second |-> -1], \* 'dHar;'
  [name |-> <<100,97,103,103,101,114,59>>, first |-> 8224, second |-> -1], \* 'dagger;'
  [name |-> <<100,97,108,101,116,104,59>>, first |-> 8504, second |-> -1], \* 'daleth;'
  [name |-> <<100,97,114,114,59>>, first |-> 8595, second |-> -1], \* 'darr;'
  [name |-> <<100,97,115,104,59>>, first |-> 8208, second |-> -1], \* 'dash;'
  [name |-> <<100,97,115,104,118,59>>, first |-> 8867, second |-> -1], \* 'dashv;'
  [name |-> <<100,98,107,97,114,111,119,59>>, first |-> 10511, second |-> -1], \* 'dbkarow;'
  [name |-> <<100,98,108,97,99,59>>, first |-> 733, second |-> -1], \* 'dblac;'
  [name |-> <<100,99,97,114,111,110,59>>, first |-> 271, second |-> -1], \* 'dcaron;'
  [name |-> <<100,99,121,59>>, first |-> 1076, second |-> -1], \* 'dcy;'
  [name |-> <<100,100,59>>, first |-> 8518, second |-> -1], \* 'dd;'
  [name |-> <<100,100,97,103,103,101,114,59>>, first |-> 8225, second |-> -1], \* 'ddagger;'
  [name |-> <<100,100,97,114,114,59>>, first |-> 8650, second |-> -1], \* 'ddarr;'
  [name |-> <<100,100,111,116,115,101,113,59>>, first |-> 10871, second |-> -1], \* 'ddotseq;'
  [name |-> <<100,101,103,59>>, first |-> 176, second |-> -1], \* 'deg;'
  [name |-> <<100,101,103>>, first |-> 176, second |-> -1], \* 'deg'
  [name |-> <<100,101,108,116,97,59>>, first |-> 948, second |-> -1], \* 'delta;'
  [name |-> <<100,101,109,112,116,121,118,59>>, first |-> 10673, second |-> -1], \* 'demptyv;'
  [name |-> <<100,102,105,115,104,116,59>>, first |-> 10623, second |-> -1], \* 'dfisht;'
  [name |-> <<100,102,114,59>>, first |-> 120097, second |-> -1], \* 'dfr;'
  [name |-> <<100,104,97,114,108,59>>, first |-> 8643, second |-> -1], \* 'dharl;'
  [name |-> <<100,104,97,114,114,59>>, first |-> 8642, second |-> -1], \* 'dharr;'
  [name |-> <<100,105,97,109,59>>, first |-> 8900, second |-> -1], \* 'diam;'
  [name |-> <<100,105,97,109,111,110,100,59>>, first |-> 8900, second |-> -1], \* 'diamond;'
  [name |-> <<100,105,97,109,111,110,100,115,117,105,116,59>>, first |-> 9830, second |-> -1], \* 'diamondsuit;'
  [name |-> <<100,105,97,109,115,59>>, first |-> 9830, second |-> -1], \* 'diams;'
  [name |-> <<100,105,101,59>>, first |-> 168, second |-> -1], \* 'die;'
  [name |-> <<100,105,103,97,109,109,97,59>>, first |-> 989, second |-> -1], \* 'digamma;'
  [name |-> <<100,105,115,105,110,59>>, first |-> 8946, second |-> -1], \* 'disin;'
  [name |-> <<100,105,118,59>>, first |-> 247, second |-> -1], \* 'div;'
  [name |-> <<100,105,118,105,100,101,59>>, first |-> 247, second |-> -1], \* 'divide;'
  [name |-> <<100,105,118,105,100,101>>, first |-> 247, second |-> -1], \* 'divide'
  [name |-> <<100,105,118,105,100,101,111,110,116,105,109,101,115,59>>, first |-> 8903, second |-> -1], \* 'divideontimes;'
  [name |-> <<100,105,118,111,110,120,59>>, first |-> 8903, second |-> -1], \* 'divonx;'
  [name |-> <<100,106,99,121,59>>, first |-> 1106, second |-> -1], \* 'djcy;'
  [name |-> <<100,108,99,111,114,110,59>>, first |-> 8990, second |-> -1], \* 'dlcorn;'
  [name |-> <<100,108,99,114,111,112,59>>, first |-> 8973, second |-> -1], \* 'dlcrop;'
  [name |-> <<100,111,108,108,97,114,59>>, first |-> 36, second |-> -1], \* 'dollar;'
  [name |-> <<100,111,112,102,59>>, first |-> 120149, second |-> -1], \* 'dopf;'
  [name |-> <<100,111,116,59>>, first |-> 729, second |-> -1], \* 'dot;'
  [name |-> <<100,111,116,101,113,59>>, first |-> 8784, second |-> -1], \* 'doteq;'
  [name |-> <<100,111,116,101,113,100,111,116,59>>, first |-> 8785, second |-> -1], \* 'doteqdot;'
  [name |-> <<100,111,116,109,105,110,117,115,59>>, first |-> 8760, second |-> -1], \* 'dotminus;'
  [name |-> <<100,111,116,112,108,117,115,59>>, first |-> 8724, second |-> -1], \* 'dotplus;'
  [name |-> <<100,111,116,115,113,117,97,114,101,59>>, first |-> 8865, second |-> -1], \* 'dotsquare;'
  [name |-> <<100,111,117,98,108,101,98,97,114,119,101,100,103,101,59>>, first |-> 8966, second |-> -1], \* 'doublebarwedge;'
  [name |-> <<100,111,119,110,97,114,114,111,119,59>>, first |-> 8595, second |-> -1], \* 'downarrow;'
  [name |-> <<100,111,119,110,100,111,119,110,97,114,114,111,119,115,59>>, first |-> 8650, second |-> -1], \* 'downdownarrows;'
  [name |-> <<100,111,119,110,104,97,114,112,111,111,110,108,101,102,116,59>>, first |-> 8643, second |-> -1], \* 'downharpoonleft;'
  [name |-> <<100,111,119,110,104,97,114,112,111,111,110,114,105,103,104,116,59>>, first |-> 8642, second |-> -1], \* 'downharpoonright;'
  [name |-> <<100,114,98,107,97,114,111,119,59>>, first |-> 10512, second |-> -1], \* 'drbkarow;'
  [name |-> <<100,114,99,111,114,110,59>>, first |-> 8991, second |-> -1], \* 'drcorn;'
  [name |-> <<100,114,99,114,111,112,59>>, first |-> 8972, second |-> -1], \* 'drcrop;'
  [name |-> <<100,115,99,114,59>>, first |-> 119993, second |-> -1], \* 'dscr;'
  [name |-> <<100,115,99,121,59>>, first |-> 1109, second |-> -1], \* 'dscy;'
  [name |-> <<100,115,111,108,59>>, first |-> 10742, second |-> -1], \* 'dsol;'
  [name |-> <<100,115,116,114,111,107,59>>, first |-> 273, second |-> -1], \* 'dstrok;'
  [name |-> <<100,116,100,111,116,59>>, first |-> 8945, second |-> -1], \* 'dtdot;'
  [name |-> <<100,116,114,105,59>>, first |-> 9663, second |-> -1], \* 'dtri;'
  [name |-> <<100,116,114,105,102,59>>, first |-> 9662, second |-> -1], \* 'dtrif;'
  [name |-> <<100,117,97,114,114,59>>, first |-> 8693, second |-> -1], \* 'duarr;'
  [name |-> <<100,117,104,97,114,59>>, first |-> 10607, second |-> -1], \* 'duhar;'
  [name |-> <<100,119,97,110,103,108,101,59>>, first |-> 10662, second |-> -1], \* 'dwangle;'
  [name |-> <<100,122,99,121,59>>, first |-> 1119, second |-> -1], \* 'dzcy;'
  [name |-> <<100,122,105,103,114,97,114,114,59>>, first |-> 10239, second |-> -1], \* 'dzigrarr;'
  [name |-> <<101,68,68,111,116,59>>, first |-> 10871, second |-> -1], \* 'eDDot;'
  [name |-> <<101,68,111,116,59>>, first |-> 8785, second |-> -1], \* 'eDot;'
  [name |-> <<101,97,99,117,116,101,59>>, first |-> 233, second |-> -1], \* 'eacute;'
  [name |-> <<101,97,99,117,116,101>>, first |-> 233, second |-> -1], \* 'eacute'
  [name |-> <<101,97,115,116,101,114,59>>, first |-> 10862, second |-> -1], \* 'easter;'
  [name |-> <<101,99,97,114,111,110,59>>, first |-> 283, second |-> -1], \* 'ecaron;'
  [name |-> <<101,99,105,114,59>>, first |-> 8790, second |-> -1], \* 'ecir;'
  [name |-> <<101,99,105,114,99,59>>, first |-> 234, second |-> -1], \* 'ecirc;'
  [name |-> <<101,99,105,114,99>>, first |-> 234, second |-> -1], \* 'ecirc'
  [name |-> <<101,99,111,108,111,110,59>>, first |-> 8789, second |-> -1], \* 'ecolon;'
  [name |-> <<101,99,121,59>>, first |-> 1101, second |-> -1], \* 'ecy;'
  [name |-> <<101,100,111,116,59>>, first |-> 279, second |-> -1], \* 'edot;'
  [name |-> <<101,101,59>>, first |-> 8519, second |-> -1], \* 'ee;'
  [name |-> <<101,102,68,111,116,59>>, first |-> 8786, second |-> -1], \* 'efDot;'
  [name |-> <<101,102,114,59>>, first |-> 120098, second |-> -1], \* 'efr;'
  [name |-> <<101,103,59>>, first |-> 10906, second |-> -1], \* 'eg;'
  [name |-> <<101,103,114,97,118,101,59>>, first |-> 232, second |-> -1], \* 'egrave;'
  [name |-> <<101,103,114,97,118,101>>, first |-> 232, second |-> -1], \* 'egrave'
  [name |-> <<101,103,115,59>>, first |-> 10902, second |-> -1], \* 'egs;'
  [name |-> <<101,103,115,100,111,116,59>>, first |-> 10904, second |-> -1], \* 'egsdot;'
  [name |-> <<101,108,59>>, first |-> 10905, second |-> -1], \* 'el;'
  [name |-> <<101,108,105,110,116,101,114,115,59>>, first |-> 9191, second |-> -1], \* 'elinters;'
  [name |-> <<101,108,108,59>>, first |-> 8467, second |-> -1], \* 'ell;'
  [name |-> <<101,108,115,59>>, first |-> 10901, second |-> -1], \* 'els;'
  [name |-> <<101,108,115,100,111,116,59>>, first |-> 10903, second |-> -1], \* 'elsdot;'
  [name |-> <<101,109,97,99,114,59>>, first |-> 275, second |-> -1], \* 'emacr;'
  [name |-> <<101,109,112,116,121,59>>, first |-> 8709, second |-> -1], \* 'empty;'
  [name |-> <<101,109,112,116,121,115,101,116,59>>, first |-> 8709, second |-> -1], \* 'emptyset;'
  [name |-> <<101,109,112,116,121,118,59>>, first |-> 8709, second |-> -1], \* 'emptyv;'
  [name |-> <<101,109,115,112,49,51,59>>, first |-> 8196, second |-> -1], \* 'emsp13;'
  [name |-> <<101,109,115,112,49,52,59>>, first |-> 8197, second |-> -1], \* 'emsp14;'
  [name |-> <<101,109,115,112,59>>, first |-> 8195, second |-> -1], \* 'emsp;'
  [name |-> <<101,110,103,59>>, first |-> 331, second |-> -1], \* 'eng;'
  [name |-> <<101,110,115,112,59>>, first |-> 8194, second |-> -1], \* 'ensp;'
  [name |-> <<101,111,103,111,110,59>>, first |-> 281, second |-> -1], \* 'eogon;'
  [name |-> <<101,111,112,102,59>>, first |-> 120150, second |-> -1], \* 'eopf;'
  [name |-> <<101,112,97,114,59>>, first |-> 8917, second |-> -1], \* 'epar;'
  [name |-> <<101,112,97,114,115,108,59>>, first |-> 10723, second |-> -1], \* 'eparsl;'
  [name |-> <<101,112,108,117,115,59>>, first |-> 10865, second |-> -1], \* 'eplus;'
  [name |-> <<101,112,115,105,59>>, first |-> 949, second |-> -1], \* 'epsi;'
  [name |-> <<101,112,115,105,108,111,110,59>>, first |-> 949, second |-> -1], \* 'epsilon;'
  [name |-> <<101,112,115,105,118,59>>, first |-> 1013, second |-> -1], \* 'epsiv;'
  [name |-> <<101,113,99,105,114,99,59>>, first |-> 8790, second |-> -1], \* 'eqcirc;'
  [name |-> <<101,113,99,111,108,111,110,59>>, first |-> 8789, second |-> -1], \* 'eqcolon;'
  [name |-> <<101,113,115,105,109,59>>, first |-> 8770, second |-> -1], \* 'eqsim;'
  [name |-> <<101,113,115,108,97,110,116,103,116,114,59>>, first |-> 10902, second |-> -1], \* 'eqslantgtr;'
  [name |-> <<101,113,115,108,97,110,116,108,101,115,115,59>>, first |-> 10901, second |-> -1], \* 'eqslantless;'
  [name |-> <<101,113,117,97,108,115,59>>, first |-> 61, second |-> -1], \* 'equals;'
  [name |-> <<101,113,117,101,115,116,59>>, first |-> 8799, second |-> -1], \* 'equest;'
  [name |-> <<101,113,117,105,118,59>>, first |-> 8801, second |-> -1], \* 'equiv;'
  [name |-> <<101,113,117,105,118,68,68,59>>, first |-> 10872, second |-> -1], \* 'equivDD;'
  [name |-> <<101,113,118,112,97,114,115,108,59>>, first |-> 10725, second |-> -1], \* 'eqvparsl;'
  [name |-> <<101,114,68,111,116,59>>, first |-> 8787, second |-> -1], \* 'erDot;'
  [name |-> <<101,114,97,114,114,59>>, first |-> 10609, second |-> -1], \* 'erarr;'
  [name |-> <<101,115,99,114,59>>, first |-> 8495, second |-> -1], \* 'escr;'
  [name |-> <<101,115,100,111,116,59>>, first |-> 8784, second |-> -1], \* 'esdot;'
  [name |-> <<101,115,105,109,59>>, first |-> 8770, second |-> -1], \* 'esim;'
  [name |-> <<101,116,97,59>>, first |-> 951, second |-> -1], \* 'eta;'
  [name |-> <<101,116,104,59>>, first |-> 240, second |-> -1], \* 'eth;'
  [name |-> <<101,116,104>>, first |-> 240, second |-> -1], \* 'eth'
  [name |-> <<101,117,109,108,59>>, first |-> 235, second |-> -1], \* 'euml;'
  [name |-> <<101,117,109,108>>, first |-> 235, second |-> -1], \* 'euml'
  [name |-> <<101,117,114,111,59>>, first |-> 8364, second |-> -1], \* 'euro;'
  [name |-> <<101,120,99,108,59>>, first |-> 33, second |-> -1], \* 'excl;'
  [name |-> <<101,120,105,115,116,59>>, first |-> 8707, second |-> -1], \* 'exist;'
  [name |-> <<101,120,112,101,99,116,97,116,105,111,110,59>>, first |-> 8496, second |-> -1], \* 'expectation;'
  [name |-> <<101,120,112,111,110,101,110,116,105,97,108,101,59>>, first |-> 8519, second |-> -1], \* 'exponentiale;'
  [name |-> <<102,97,108,108,105,110,103,100,111,116,115,101,113,59>>, first |-> 8786, second |-> -1], \* 'fallingdotseq;'
  [name |-> <<102,99,121,59>>, first |-> 1092, second |-> -1], \* 'fcy;'
  [name |-> <<102,101,109,97,108,101,59>>, first |-> 9792, second |-> -1], \* 'female;'
  [name |-> <<102,102,105,108,105,103,59>>, first |-> 64259, second |-> -1], \* 'ffilig;'
  [name |-> <<102,102,108,105,103,59>>, first |-> 64256, second |-> -1], \* 'fflig;'
  [name |-> <<102,102,108,108,105,103,59>>, first |-> 64260, second |-> -1], \* 'ffllig;'
  [name |-> <<102,102,114,59>>, first |-> 120099, second |-> -1], \* 'ffr;'
  [name |-> <<102,105,108,105,103,59>>, first |-> 64257, second |-> -1], \* 'filig;'
  [name |-> <<102,106,108,105,103,59>>, first |-> 102, second |-> 106], \* 'fjlig;'
  [name |-> <<102,108,97,116,59>>, first |-> 9837, second |-> -1], \* 'flat;'
  [name |-> <<102,108,108,105,103,59>>, first |-> 64258, second |-> -1], \* 'fllig;'
  [name |-> <<102,108,116,110,115,59>>, first |-> 9649, second |-> -1], \* 'fltns;'
  [name |-> <<102,110,111,102,59>>, first |-> 402, second |-> -1], \* 'fnof;'
  [name |-> <<102,111,112,102,59>>, first |-> 120151, second |-> -1], \* 'fopf;'
  [name |-> <<102,111,114,97,108,108,59>>, first |-> 8704, second |-> -1], \* 'forall;'
  [name |-> <<102,111,114,107,59>>, first |-> 8916, second |-> -1], \* 'fork;'
  [name |-> <<102,111,114,107,118,59>>, first |-> 10969, second |-> -1], \* 'forkv;'
  [name |-> <<102,112,97,114,116,105,110,116,59>>, first |-> 10765, second |-> -1], \* 'fpartint;'
  [name |-> <<102,114,97,99,49,50,59>>, first |-> 189, second |-> -1], \* 'frac12;'
  [name |-> <<102,114,97,99,49,50>>, first |-> 189, second |-> -1], \* 'frac12'
  [name |-> <<102,114,97,99,49,51,59>>, first |-> 8531, second |-> -1], \* 'frac13;'
  [name |-> <<102,114,97,99,49,52,59>>, first |-> 188, second |-> -1], \* 'frac14;'
  [name |-> <<102,114,97,99,49,52>>, first |-> 188, second |-> -1], \* 'frac14'
  [name |-> <<102,114,97,99,49,53,59>>, first |-> 8533, second |-> -1], \* 'frac15;'
  [name |-> <<102,114,97,99,49,54,59>>, first |-> 8537, second |-> -1], \* 'frac16;'
  [name |-> <<102,114,97,99,49,56,59>>, first |-> 8539, second |-> -1], \* 'frac18;'
  [name |-> <<102,114,97,99,50,51,59>>, first |-> 8532, second |-> -1], \* 'frac23;'
  [name |-> <<102,114,97,99,50,53,59>>, first |-> 8534, second |-> -1], \* 'frac25;'
  [name |-> <<102,114,97,99,51,52,59>>, first |-> 190, second |-> -1], \* 'frac34;'
  [name |-> <<102,114,97,99,51,52>>, first |-> 190, second |-> -1], \* 'frac34'
  [name |-> <<102,114,97,99,51,53,59>>, first |-> 8535, second |-> -1], \* 'frac35;'
  [name |-> <<102,114,97,99,51,56,59>>, first |-> 8540, second |-> -1], \* 'frac38;'
  [name |-> <<102,114,97,99,52,53,59>>, first |-> 8536, second |-> -1], \* 'frac45;'
  [name |-> <<102,114,97,99,53,54,59>>, first |-> 8538, second |-> -1], \* 'frac56;'
  [name |-> <<102,114,97,99,53,56,59>>, first |-> 8541, second |-> -1], \* 'frac58;'
  [name |-> <<102,114,97,99,55,56,59>>, first |-> 8542, second |-> -1], \* 'frac78;'
  [name |-> <<102,114,97,115,108,59>>, first |-> 8260, second |-> -1], \* 'frasl;'
  [name |-> <<102,114,111,119,110,59>>, first |-> 8994, second |-> -1], \* 'frown;'
  [name |-> <<102,115,99,114,59>>, first |-> 119995, second |-> -1], \* 'fscr;'
  [name |-> <<103,69,59>>, first |-> 8807, second |-> -1], \* 'gE;'
  [name |-> <<103,69,108,59>>, first |-> 10892, second |-> -1], \* 'gEl;'
  [name |-> <<103,97,99,117,116,101,59>>, first |-> 501, second |-> -1], \* 'gacute;'
  [name |-> <<103,97,109,109,97,59>>, first |-> 947, second |-> -1], \* 'gamma;'
  [name |-> <<103,97,109,109,97,100,59>>, first |-> 989, second |-> -1], \* 'gammad;'
  [name |-> <<103,97,112,59>>, first |-> 10886, second |-> -1], \* 'gap;'
  [name |-> <<103,98,114,101,118,101,59>>, first |-> 287, second |-> -1], \* 'gbreve;'
  [name |-> <<103,99,105,114,99,59>>, first |-> 285, second |-> -1], \* 'gcirc;'
  [name |-> <<103,99,121,59>>, first |-> 1075, second |-> -1], \* 'gcy;'
  [name |-> <<103,100,111,116,59>>, first |-> 289, second |-> -1], \* 'gdot;'
  [name |-> <<103,101,59>>, first |-> 8805, second |-> -1], \* 'ge;'
  [name |-> <<103,101,108,59>>, first |-> 8923, second |-> -1], \* 'gel;'
  [name |-> <<103,101,113,59>>, first |-> 8805, second |-> -1], \* 'geq;'
  [name |-> <<103,101,113,113,59>>, first |-> 8807, second |-> -1], \* 'geqq;'
  [name |-> <<103,101,113,115,108,97,110,116,59>>, first |-> 10878, second |-> -1], \* 'geqslant;'
  [name |-> <<103,101,115,59>>, first |-> 10878, second |-> -1], \* 'ges;'
  [name |-> <<103,101,115,99,99,59>>, first |-> 10921, second |-> -1], \* 'gescc;'
  [name |-> <<103,101,115,100,111,116,59>>, first |-> 10880, second |-> -1], \* 'gesdot;'
  [name |-> <<103,101,115,100,111,116,111,59>>, first |-> 10882, second |-> -1], \* 'gesdoto;'
  [name |-> <<103,101,115,100,111,116,111,108,59>>, first |-> 10884, second |-> -1], \* 'gesdotol;'
  [name |-> <<103,101,115,108,59>>, first |-> 8923, second |-> 65024], \* 'gesl;'
  [name |-> <<103,101,115,108,101,115,59>>, first |-> 10900, second |-> -1], \* 'gesles;'
  [name |-> <<103,102,114,59>>, first |-> 120100, second |-> -1], \* 'gfr;'
  [name |-> <<103,103,59>>, first |-> 8811, second |-> -1], \* 'gg;'
  [name |-> <<103,103,103,59>>, first |-> 8921, second |-> -1], \* 'ggg;'
  [name |-> <<103,105,109,101,108,59>>, first |-> 8503, second |-> -1], \* 'gimel;'
  [name |-> <<103,106,99,121,59>>, first |-> 1107, second |-> -1], \* 'gjcy;'
  [name |-> <<103,108,59>>, first |-> 8823, second |-> -1], \* 'gl;'
  [name |-> <<103,108,69,59>>, first |-> 10898, second |-> -1], \* 'glE;'
  [name |-> <<103,108,97,59>>, first |-> 10917, second |-> -1], \* 'gla;'
  [name |-> <<103,108,106,59>>, first |-> 10916, second |-> -1], \* 'glj;'
  [name |-> <<103,110,69,59>>, first |-> 8809, second |-> -1], \* 'gnE;'
  [name |-> <<103,110,97,112,59>>, first |-> 10890, second |-> -1], \* 'gnap;'
  [name |-> <<103,110,97,112,112,114,111,120,59>>, first |-> 10890, second |-> -1], \* 'gnapprox;'
  [name |-> <<103,110,101,59>>, first |-> 10888, second |-> -1], \* 'gne;'
  [name |-> <<103,110,101,113,59>>, first |-> 10888, second |-> -1], \* 'gneq;'
  [name |-> <<103,110,101,113,113,59>>, first |-> 8809, second |-> -1], \* 'gneqq;'
  [name |-> <<103,110,115,105,109,59>>, first |-> 8935, second |-> -1], \* 'gnsim;'
  [name |-> <<103,111,112,102,59>>, first |-> 120152, second |-> -1], \* 'gopf;'
  [name |-> <<103,114,97,118,101,59>>, first |-> 96, second |-> -1], \* 'grave;'
  [name |-> <<103,115,99,114,59>>, first |-> 8458, second |-> -1], \* 'gscr;'
  [name |-> <<103,115,105,109,59>>, first |-> 8819, second |-> -1], \* 'gsim;'
  [name |-> <<103,115,105,109,101,59>>, first |-> 10894, second |-> -1], \* 'gsime;'
  [name |-> <<103,115,105,109,108,59>>, first |-> 10896, second |-> -1], \* 'gsiml;'
  [name |-> <<103,116,59>>, first |-> 62, second |-> -1], \* 'gt;'
  [name |-> <<103,116>>, first |-> 62, second |-> -1], \* 'gt'
  [name |-> <<103,116,99,99,59>>, first |-> 10919, second |-> -1], \* 'gtcc;'
  [name |-> <<103,116,99,105,114,59>>, first |-> 10874, second |-> -1], \* 'gtcir;'
  [name |-> <<103,116,100,111,116,59>>, first |-> 8919, second |-> -1], \* 'gtdot;'
  [name |-> <<103,116,108,80,97,114,59>>, first |-> 10645, second |-> -1], \* 'gtlPar;'
  [name |-> <<103,116,113,117,101,115,116,59>>, first |-> 10876, second |-> -1], \* 'gtquest;'
  [name |-> <<103,116,114,97,112,112,114,111,120,59>>, first |-> 10886, second |-> -1], \* 'gtrapprox;'
  [name |-> <<103,116,114,97,114,114,59>>, first |-> 10616, second |-> -1], \* 'gtrarr;'
  [name |-> <<103,116,114,100,111,116,59>>, first |-> 8919, second |-> -1], \* 'gtrdot;'
  [name |-> <<103,116,114,101,113,108,101,115,115,59>>, first |-> 8923, second |-> -1], \* 'gtreqless;'
  [name |-> <<103,116,114,101,113,113,108,101,115,115,59>>, first |-> 10892, second |-> -1], \* 'gtreqqless;'
  [name |-> <<103,116,114,108,101,115,115,59>>, first |-> 8823, second |-> -1], \* 'gtrless;'
  [name |-> <<103,116,114,115,105,109,59>>, first |-> 8819, second |-> -1], \* 'gtrsim;'
  [name |-> <<103,118,101,114,116,110,101,113,113,59>>, first |-> 8809, second |-> 65024], \* 'gvertneqq;'
  [name |-> <<103,118,110,69,59>>, first |-> 8809, second |-> 65024], \* 'gvnE;'
  [name |-> <<104,65,114,114,59>>, first |-> 8660, second |-> -1], \* 'hArr;'
  [name |-> <<104,97,105,114,115,112,59>>, first |-> 8202, second |-> -1], \* 'hairsp;'
  [name |-> <<104,97,108,102,59>>, first |-> 189, second |-> -1], \* 'half;'
  [name |-> <<104,97,109,105,108,116,59>>, first |-> 8459, second |-> -1], \* 'hamilt;'
  [name |-> <<104,97,114,100,99,121,59>>, first |-> 1098, second |-> -1], \* 'hardcy;'
  [name |-> <<104,97,114,114,59>>, first |-> 8596, second |-> -1], \* 'harr;'
  [name |-> <<104,97,114,114,99,105,114,59>>, first |-> 10568, second |-> -1], \* 'harrcir;'
  [name |-> <<104,97,114,114,119,59>>, first |-> 8621, second |-> -1], \* 'harrw;'
  [name |-> <<104,98,97,114,59>>, first |-> 8463, second |-> -1], \* 'hbar;'
  [name |-> <<104,99,105,114,99,59>>, first |-> 293, second |-> -1], \* 'hcirc;'
  [name |-> <<104,101,97,114,116,115,59>>, first |-> 9829, second |-> -1], \* 'hearts;'
  [name |-> <<104,101,97,114,116,115,117,105,116,59>>, first |-> 9829, second |-> -1], \* 'heartsuit;'
  [name |-> <<104,101,108,108,105,112,59>>, first |-> 8230, second |-> -1], \* 'hellip;'
  [name |-> <<104,101,114,99,111,110,59>>, first |-> 8889, second |-> -1], \* 'hercon;'
  [name |-> <<104,102,114,59>>, first |-> 120101, second |-> -1], \* 'hfr;'
  [name |-> <<104,107,115,101,97,114,111,119,59>>, first |-> 10533, second |-> -1], \* 'hksearow;'
  [name |-> <<104,107,115,119,97,114,111,119,59>>, first |-> 10534, second |-> -1], \* 'hkswarow;'
  [name |-> <<104,111,97,114,114,59>>, first |-> 8703, second |-> -1], \* 'hoarr;'
  [name |-> <<104,111,109,116,104,116,59>>, first |-> 8763, second |-> -1], \* 'homtht;'
  [name |-> <<104,111,111,107,108,101,102,116,97,114,114,111,119,59>>, first |-> 8617, second |-> -1], \* 'hookleftarrow;'
  [name |-> <<104,111,111,107,114,105,103,104,116,97,114,114,111,119,59>>, first |-> 8618, second |-> -1], \* 'hookrightarrow;'
  [name |-> <<104,111,112,102,59>>, first |-> 120153, second |-> -1], \* 'hopf;'
  [name |-> <<104,111,114,98,97,114,59>>, first |-> 8213, second |-> -1], \* 'horbar;'
  [name |-> <<104,115,99,114,59>>, first |-> 119997, second |-> -1], \* 'hscr;'
  [name |-> <<104,115,108,97,115,104,59>>, first |-> 8463, second |-> -1], \* 'hslash;'
  [name |-> <<104,115,116,114,111,107,59>>, first |-> 295, second |-> -1], \* 'hstrok;'
  [name |-> <<104,121,98,117,108,108,59>>, first |-> 8259, second |-> -1], \* 'hybull;'
  [name |-> <<104,121,112,104,101,110,59>>, first |-> 8208, second |-> -1], \* 'hyphen;'
  [name |-> <<105,97,99,117,116,101,59>>, first |-> 237, second |-> -1], \* 'iacute;'
  [name |-> <<105,97,99,117,116,101>>, first |-> 237, second |-> -1], \* 'iacute'
  [name |-> <<105,99,59>>, first |-> 8291, second |-> -1], \* 'ic;'
  [name |-> <<105,99,105,114,99,59>>, first |-> 238, second |-> -1], \* 'icirc;'
  [name |-> <<105,99,105,114,99>>, first |-> 238, second |-> -1], \* 'icirc'
  [name |-> <<105,99,121,59>>, first |-> 1080, second |-> -1], \* 'icy;'
  [name |-> <<105,101,99,121,59>>, first |-> 1077, second |-> -1], \* 'iecy;'
  [name |-> <<105,101,120,99,108,59>>, first |-> 161, second |-> -1], \* 'iexcl;'
  [name |-> <<105,101,120,99,108>>, first |-> 161, second |-> -1], \* 'iexcl'
  [name |-> <<105,102,102,59>>, first |-> 8660, second |-> -1], \* 'iff;'
  [name |-> <<105,102,114,59>>, first |-> 120102, second |-> -1], \* 'ifr;'
  [name |-> <<105,103,114,97,118,101,59>>, first |-> 236, second |-> -1], \* 'igrave;'
  [name |-> <<105,103,114,97,118,101>>, first |-> 236, second |-> -1], \* 'igrave'
  [name |-> <<105,105,59>>, first |-> 8520, second |-> -1], \* 'ii;'
  [name |-> <<105,105,105,105,110,116,59>>, first |-> 10764, second |-> -1], \* 'iiiint;'
  [name |-> <<105,105,105,110,116,59>>, first |-> 8749, second |-> -1], \* 'iiint;'
  [name |-> <<105,105,110,102,105,110,59>>, first |-> 10716, second |-> -1], \* 'iinfin;'
  [name |-> <<105,105,111,116,97,59>>, first |-> 8489, second |-> -1], \* 'iiota;'
  [name |-> <<105,106,108,105,103,59>>, first |-> 307, second |-> -1], \* 'ijlig;'
  [name |-> <<105,109,97,99,114,59>>, first |-> 299, second |-> -1], \* 'imacr;'
  [name |-> <<105,109,97,103,101,59>>, first |-> 8465, second |-> -1], \* 'image;'
  [name |-> <<105,109,97,103,108,105,110,101,59>>, first |-> 8464, second |-> -1], \* 'imagline;'
  [name |-> <<105,109,97,103,112,97,114,116,59>>, first |-> 8465, second |-> -1], \* 'imagpart;'
  [name |-> <<105,109,97,116,104,59>>, first |-> 305, second |-> -1], \* 'imath;'
  [name |-> <<105,109,111,102,59>>, first |-> 8887, second |-> -1], \* 'imof;'
  [name |-> <<105,109,112,101,100,59>>, first |-> 437, second |-> -1], \* 'imped;'
  [name |-> <<105,110,59>>, first |-> 8712, second |-> -1], \* 'in;'
  [name |-> <<105,110,99,97,114,101,59>>, first |-> 8453, second |-> -1], \* 'incare;'
  [name |-> <<105,110,102,105,110,59>>, first |-> 8734, second |-> -1], \* 'infin;'
  [name |-> <<105,110,102,105,110,116,105,101,59>>, first |-> 10717, second |-> -1], \* 'infintie;'
  [name |-> <<105,110,111,100,111,116,59>>, first |-> 305, second |-> -1], \* 'inodot;'
  [name |-> <<105,110,116,59>>, first |-> 8747, second |-> -1], \* 'int;'
  [name |-> <<105,110,116,99,97,108,59>>, first |-> 8890, second |-> -1], \* 'intcal;'
  [name |-> <<105,110,116,101,103,101,114,115,59>>, first |-> 8484, second |-> -1], \* 'integers;'
  [name |-> <<105,110,116,101,114,99,97,108,59>>, first |-> 8890, second |-> -1], \* 'intercal;'
  [name |-> <<105,110,116,108,97,114,104,107,59>>, first |-> 10775, second |-> -1], \* 'intlarhk;'
  [name |-> <<105,110,116,112,114,111,100,59>>, first |-> 10812, second |-> -1], \* 'intprod;'
  [name |-> <<105,111,99,121,59>>, first |-> 1105, second |-> -1], \* 'iocy;'
  [name |-> <<105,111,103,111,110,59>>, first |-> 303, second |-> -1], \* 'iogon;'
  [name |-> <<105,111,112,102,59>>, first |-> 120154, second |-> -1], \* 'iopf;'
  [name |-> <<105,111,116,97,59>>, first |-> 953, second |-> -1], \* 'iota;'
  [name |-> <<105,112,114,111,100,59>>, first |-> 10812, second |-> -1], \* 'iprod;'
  [name |-> <<105,113,117,101,115,116,59>>, first |-> 191, second |-> -1], \* 'iquest;'
  [name |-> <<105,113,117,101,115,116>>, first |-> 191, second |-> -1], \* 'iquest'
  [name |-> <<105,115,99,114,59>>, first |-> 119998, second |-> -1], \* 'iscr;'
  [name |-> <<105,115,105,110,59>>, first |-> 8712, second |-> -1], \* 'isin;'
  [name |-> <<105,115,105,110,69,59>>, first |-> 8953, second |-> -1], \* 'isinE;'
  [name |-> <<105,115,105,110,100,111,116,59>>, first |-> 8949, second |-> -1], \* 'isindot;'
  [name |-> <<105,115,105,110,115,59>>, first |-> 8948, second |-> -1], \* 'isins;'
  [name |-> <<105,115,105,110,115,118,59>>, first |-> 8947, second |-> -1], \* 'isinsv;'
  [name |-> <<105,115,105,110,118,59>>, first |-> 8712, second |-> -1], \* 'isinv;'
  [name |-> <<105,116,59>>, first |-> 8290, second |-> -1], \* 'it;'
  [name |-> <<105,116,105,108,100,101,59>>, first |-> 297, second |-> -1], \* 'itilde;'
  [name |-> <<105,117,107,99,121,59>>, first |-> 1110, second |-> -1], \* 'iukcy;'
  [name |-> <<105,117,109,108,59>>, first |-> 239, second |-> -1], \* 'iuml;'
  [name |-> <<105,117,109,108>>, first |-> 239, second |-> -1], \* 'iuml'
  [name |-> <<106,99,105,114,99,59>>, first |-> 309, second |-> -1], \* 'jcirc;'
  [name |-> <<106,99,121,59>>, first |-> 1081, second |-> -1], \* 'jcy;'
  [name |-> <<106,102,114,59>>, first |-> 120103, second |-> -1], \* 'jfr;'
  [name |-> <<106,109,97,116,104,59>>, first |-> 567, second |-> -1], \* 'jmath;'
  [name |-> <<106,111,112,102,59>>, first |-> 120155, second |-> -1], \* 'jopf;'
  [name |-> <<106,115,99,114,59>>, first |-> 119999, second |-> -1], \* 'jscr;'
  [name |-> <<106,115,101,114,99,121,59>>, first |-> 1112, second |-> -1], \* 'jsercy;'
  [name |-> <<106,117,107,99,121,59>>, first |-> 1108, second |-> -1], \* 'jukcy;'
  [name |-> <<107,97,112,112,97,59>>, first |-> 954, second |-> -1], \* 'kappa;'
  [name |-> <<107,97,112,112,97,118,59>>, first |-> 1008, second |-> -1], \* 'kappav;'
  [name |-> <<107,99,101,100,105,108,59>>, first |-> 311, second |-> -1], \* 'kcedil;'
  [name |-> <<107,99,121,59>>, first |-> 1082, second |-> -1], \* 'kcy;'
  [name |-> <<107,102,114,59>>, first |-> 120104, second |-> -1], \* 'kfr;'
  [name |-> <<107,103,114,101,101,110,59>>, first |-> 312, second |-> -1], \* 'kgreen;'
  [name |-> <<107,104,99,121,59>>, first |-> 1093, second |-> -1], \* 'khcy;'
  [name |-> <<107,106,99,121,59>>, first |-> 1116, second |-> -1], \* 'kjcy;'
  [name |-> <<107,111,112,102,59>>, first |-> 120156, second |-> -1], \* 'kopf;'
  [name |-> <<107,115,99,114,59>>, first |-> 120000, second |-> -1], \* 'kscr;'
  [name |-> <<108,65,97,114,114,59>>, first |-> 8666, second |-> -1], \* 'lAarr;'
  [name |-> <<108,65,114,114,59>>, first |-> 8656, second |-> -1], \* 'lArr;'
  [name |-> <<108,65,116,97,105,108,59>>, first |-> 10523, second |-> -1], \* 'lAtail;'
  [name |-> <<108,66,97,114,114,59>>, first |-> 10510, second |-> -1], \* 'lBarr;'
  [name |-> <<108,69,59>>, first |-> 8806, second |-> -1], \* 'lE;'
  [name |-> <<108,69,103,59>>, first |-> 10891, second |-> -1], \* 'lEg;'
  [name |-> <<108,72,97,114,59>>, first |-> 10594, second |-> -1], \* 'lHar;'
  [name |-> <<108,97,99,117,116,101,59>>, first |-> 314, second |-> -1], \* 'lacute;'
  [name |-> <<108,97,101,109,112,116,121,118,59>>, first |-> 10676, second |-> -1], \* 'laemptyv;'
  [name |-> <<108,97,103,114,97,110,59>>, first |-> 8466, second |-> -1], \* 'lagran;'
  [name |-> <<108,97,109,98,100,97,59>>, first |-> 955, second |-> -1], \* 'lambda;'
  [name |-> <<108,97,110,103,59>>, first |-> 10216, second |-> -1], \* 'lang;'
  [name |-> <<108,97,110,103,100,59>>, first |-> 10641, second |-> -1], \* 'langd;'
  [name |-> <<108,97,110,103,108,101,59>>, first |-> 10216, second |-> -1], \* 'langle;'
  [name |-> <<108,97,112,59>>, first |-> 10885, second |-> -1], \* 'lap;'
  [name |-> <<108,97,113,117,111,59>>, first |-> 171, second |-> -1], \* 'laquo;'
  [name |-> <<108,97,113,117,111>>, first |-> 171, second |-> -1], \* 'laquo'
  [name |-> <<108,97,114,114,59>>, first |-> 8592, second |-> -1], \* 'larr;'
  [name |-> <<108,97,114,114,98,59>>, first |-> 8676, second |-> -1], \* 'larrb;'
  [name |-> <<108,97,114,114,98,102,115,59>>, first |-> 10527, second |-> -1], \* 'larrbfs;'
  [name |-> <<108,97,114,114,102,115,59>>, first |-> 10525, second |-> -1], \* 'larrfs;'
  [name |-> <<108,97,114,114,104,107,59>>, first |-> 8617, second |-> -1], \* 'larrhk;'
  [name |-> <<108,97,114,114,108,112,59>>, first |-> 8619, second |-> -1], \* 'larrlp;'
  [name |-> <<108,97,114,114,112,108,59>>, first |-> 10553, second |-> -1], \* 'larrpl;'
  [name |-> <<108,97,114,114,115,105,109,59>>, first |-> 10611, second |-> -1], \* 'larrsim;'
  [name |-> <<108,97,114,114,116,108,59>>, first |-> 8610, second |-> -1], \* 'larrtl;'
  [name |-> <<108,97,116,59>>, first |-> 10923, second |-> -1], \* 'lat;'
  [name |-> <<108,97,116,97,105,108,59>>, first |-> 10521, second |-> -1], \* 'latail;'
  [name |-> <<108,97,116,101,59>>, first |-> 10925, second |-> -1], \* 'late;'
  [name |-> <<108,97,116,101,115,59>>, first |-> 10925, second |-> 65024], \* 'lates;'
  [name |-> <<108,98,97,114,114,59>>, first |-> 10508, second |-> -1], \* 'lbarr;'
  [name |-> <<108,98,98,114,107,59>>, first |-> 10098, second |-> -1], \* 'lbbrk;'
  [name |-> <<108,98,114,97,99,101,59>>, first |-> 123, second |-> -1], \* 'lbrace;'
  [name |-> <<108,98,114,97,99,107,59>>, first |-> 91, second |-> -1], \* 'lbrack;'
  [name |-> <<108,98,114,107,101,59>>, first |-> 10635, second |-> -1], \* 'lbrke;'
  [name |-> <<108,98,114,107,115,108,100,59>>, first |-> 10639, second |-> -1], \* 'lbrksld;'
  [name |-> <<108,98,114,107,115,108,117,59>>, first |-> 10637, second |-> -1], \* 'lbrkslu;'
  [name |-> <<108,99,97,114,111,110,59>>, first |-> 318, second |-> -1], \* 'lcaron;'
  [name |-> <<108,99,101,100,105,108,59>>, first |-> 316, second |-> -1], \* 'lcedil;'
  [name |-> <<108,99,101,105,108,59>>, first |-> 8968, second |-> -1], \* 'lceil;'
  [name |-> <<108,99,117,98,59>>, first |-> 123, second |-> -1], \* 'lcub;'
  [name |-> <<108,99,121,59>>, first |-> 1083, second |-> -1], \* 'lcy;'
  [name |-> <<108,100,99,97,59>>, first |-> 10550, second |-> -1], \* 'ldca;'
  [name |-> <<108,100,113,117,111,59>>, first |-> 8220, second |-> -1], \* 'ldquo;'
  [name |-> <<108,100,113,117,111,114,59>>, first |-> 8222, second |-> -1], \* 'ldquor;'
  [name |-> <<108,100,114,100,104,97,114,59>>, first |-> 10599, second |-> -1], \* 'ldrdhar;'
  [name |-> <<108,100,114,117,115,104,97,114,59>>, first |-> 10571, second |-> -1], \* 'ldrushar;'
  [name |-> <<108,100,115,104,59>>, first |-> 8626, second |-> -1], \* 'ldsh;'
  [name |-> <<108,101,59>>, first |-> 8804, second |-> -1], \* 'le;'
  [name |-> <<108,101,102,116,97,114,114,111,119,59>>, first |-> 8592, second |-> -1], \* 'leftarrow;'
  [name |-> <<108,101,102,116,97,114,114,111,119,116,97,105,108,59>>, first |-> 8610, second |-> -1], \* 'leftarrowtail;'
  [name |-> <<108,101,102,116,104,97,114,112,111,111,110,100,111,119,110,59>>, first |-> 8637, second |-> -1], \* 'leftharpoondown;'
  [name |-> <<108,101,102,116,104,97,114,112,111,111,110,117,112,59>>, first |-> 8636, second |-> -1], \* 'leftharpoonup;'
  [name |-> <<108,101,102,116,108,101,102,116,97,114,114,111,119,115,59>>, first |-> 8647, second |-> -1], \* 'leftleftarrows;'
  [name |-> <<108,101,102,116,114,105,103,104,116,97,114,114,111,119,59>>, first |-> 8596, second |-> -1], \* 'leftrightarrow;'
  [name |-> <<108,101,102,116,114,105,103,104,116,97,114,114,111,119,115,59>>, first |-> 8646, second |-> -1], \* 'leftrightarrows;'
  [name |-> <<108,101,102,116,114,105,103,104,116,104,97,114,112,111,111,110,115,59>>, first |-> 8651, second |-> -1], \* 'leftrightharpoons;'
  [name |-> <<108,101,102,116,114,105,103,104,116,115,113,117,105,103,97,114,114,111,119,59>>, first |-> 8621, second |-> -1], \* 'leftrightsquigarrow;'
  [name |-> <<108,101,102,116,116,104,114,101,101,116,105,109,101,115,59>>, first |-> 8907, second |-> -1], \* 'leftthreetimes;'
  [name |-> <<108,101,103,59>>, first |-> 8922, second |-> -1], \* 'leg;'
  [name |-> <<108,101,113,59>>, first |-> 8804, second |-> -1], \* 'leq;'
  [name |-> <<108,101,113,113,59>>, first |-> 8806, second |-> -1], \* 'leqq;'
  [name |-> <<108,101,113,115,108,97,110,116,59>>, first |-> 10877, second |-> -1], \* 'leqslant;'
  [name |-> <<108,101,115,59>>, first |-> 10877, second |-> -1], \* 'les;'
  [name |-> <<108,101,115,99,99,59>>, first |-> 10920, second |-> -1], \* 'lescc;'
  [name |-> <<108,101,115,100,111,116,59>>, first |-> 10879, second |-> -1], \* 'lesdot;'
  [name |-> <<108,101,115,100,111,116,111,59>>, first |-> 10881, second |-> -1], \* 'lesdoto;'
  [name |-> <<108,101,115,100,111,116,111,114,59>>, first |-> 10883, second |-> -1], \* 'lesdotor;'
  [name |-> <<108,101,115,103,59>>, first |-> 8922, second |-> 65024], \* 'lesg;'
  [name |-> <<108,101,115,103,101,115,59>>, first |-> 10899, second |-> -1], \* 'lesges;'
  [name |-> <<108,101,115,115,97,112,112,114,111,120,59>>, first |-> 10885, second |-> -1], \* 'lessapprox;'
  [name |-> <<108,101,115,115,100,111,116,59>>, first |-> 8918, second |-> -1], \* 'lessdot;'
  [name |-> <<108,101,115,115,101,113,103,116,114,59>>, first |-> 8922, second |-> -1], \* 'lesseqgtr;'
  [name |-> <<108,101,115,115,101,113,113,103,116,114,59>>, first |-> 10891, second |-> -1], \* 'lesseqqgtr;'
  [name |-> <<108,101,115,115,103,116,114,59>>, first |-> 8822, second |-> -1], \* 'lessgtr;'
  [name |-> <<108,101,115,115,115,105,109,59>>, first |-> 8818, second |-> -1], \* 'lesssim;'
  [name |-> <<108,102,105,115,104,116,59>>, first |-> 10620, second |-> -1], \* 'lfisht;'
  [name |-> <<108,102,108,111,111,114,59>>, first |-> 8970, second |-> -1], \* 'lfloor;'
  [name |-> <<108,102,114,59>>, first |-> 120105, second |-> -1], \* 'lfr;'
  [name |-> <<108,103,59>>, first |-> 8822, second |-> -1], \* 'lg;'
  [name |-> <<108,103,69,59>>, first |-> 10897, second |-> -1], \* 'lgE;'
  [name |-> <<108,104,97,114,100,59>>, first |-> 8637, second |-> -1], \* 'lhard;'
  [name |-> <<108,104,97,114,117,59>>, first |-> 8636, second |-> -1], \* 'lharu;'
  [name |-> <<108,104,97,114,117,108,59>>, first |-> 10602, second |-> -1], \* 'lharul;'
  [name |-> <<108,104,98,108,107,59>>, first |-> 9604, second |-> -1], \* 'lhblk;'
  [name |-> <<108,106,99,121,59>>, first |-> 1113, second |-> -1], \* 'ljcy;'
  [name |-> <<108,108,59>>, first |-> 8810, second |-> -1], \* 'll;'
  [name |-> <<108,108,97,114,114,59>>, first |-> 8647, second |-> -1], \* 'llarr;'
  [name |-> <<108,108,99,111,114,110,101,114,59>>, first |-> 8990, second |-> -1], \* 'llcorner;'
  [name |-> <<108,108,104,97,114,100,59>>, first |-> 10603, second |-> -1], \* 'llhard;'
  [name |-> <<108,108,116,114,105,59>>, first |-> 9722, second |-> -1], \* 'lltri;'
  [name |-> <<108,109,105,100,111,116,59>>, first |-> 320, second |-> -1], \* 'lmidot;'
  [name |-> <<108,109,111,117,115,116,59>>, first |-> 9136, second |-> -1], \* 'lmoust;'
  [name |-> <<108,109,111,117,115,116,97,99,104,101,59>>, first |-> 9136, second |-> -1], \* 'lmoustache;'
  [name |-> <<108,110,69,59>>, first |-> 8808, second |-> -1], \* 'lnE;'
  [name |-> <<108,110,97,112,59>>, first |-> 10889, second |-> -1], \* 'lnap;'
  [name |-> <<108,110,97,112,112,114,111,120,59>>, first |-> 10889, second |-> -1], \* 'lnapprox;'
  [name |-> <<108,110,101,59>>, first |-> 10887, second |-> -1], \* 'lne;'
  [name |-> <<108,110,101,113,59>>, first |-> 10887, second |-> -1], \* 'lneq;'
  [name |-> <<108,110,101,113,113,59>>, first |-> 8808, second |-> -1], \* 'lneqq;'
  [name |-> <<108,110,115,105,109,59>>, first |-> 8934, second |-> -1], \* 'lnsim;'
  [name |-> <<108,111,97,110,103,59>>, first |-> 10220, second |-> -1], \* 'loang;'
  [name |-> <<108,111,97,114,114,59>>, first |-> 8701, second |-> -1], \* 'loarr;'
  [name |-> <<108,111,98,114,107,59>>, first |-> 10214, second |-> -1], \* 'lobrk;'
  [name |-> <<108,111,110,103,108,101,102,116,97,114,114,111,119,59>>, first |-> 10229, second |-> -1], \* 'longleftarrow;'
  [name |-> <<108,111,110,103,108,101,102,116,114,105,103,104,116,97,114,114,111,119,59>>, first |-> 10231, second |-> -1], \* 'longleftrightarrow;'
  [name |-> <<108,111,110,103,109,97,112,115,116,111,59>>, first |-> 10236, second |-> -1], \* 'longmapsto;'
  [name |-> <<108,111,110,103,114,105,103,104,116,97,114,114,111,119,59>>, first |-> 10230, second |-> -1], \* 'longrightarrow;'
  [name |-> <<108,111,111,112,97,114,114,111,119,108,101,102,116,59>>, first |-> 8619, second |-> -1], \* 'looparrowleft;'
  [name |-> <<108,111,111,112,97,114,114,111,119,114,105,103,104,116,59>>, first |-> 8620, second |-> -1], \* 'looparrowright;'
  [name |-> <<108,111,112,97,114,59>>, first |-> 10629, second |-> -1], \* 'lopar;'
  [name |-> <<108,111,112,102,59>>, first |-> 120157, second |-> -1], \* 'lopf;'
  [name |-> <<108,111,112,108,117,115,59>>, first |-> 10797, second |-> -1], \* 'loplus;'
  [name |-> <<108,111,116,105,109,101,115,59>>, first |-> 10804, second |-> -1], \* 'lotimes;'
  [name |-> <<108,111,119,97,115,116,59>>, first |-> 8727, second |-> -1], \* 'lowast;'
  [name |-> <<108,111,119,98,97,114,59>>, first |-> 95, second |-> -1], \* 'lowbar;'
  [name |-> <<108,111,122,59>>, first |-> 9674, second |-> -1], \* 'loz;'
  [name |-> <<108,111,122,101,110,103,101,59>>, first |-> 9674, second |-> -1], \* 'lozenge;'
  [name |-> <<108,111,122,102,59>>, first |-> 10731, second |-> -1], \* 'lozf;'
  [name |-> <<108,112,97,114,59>>, first |-> 40, second |-> -1], \* 'lpar;'
  [name |-> <<108,112,97,114,108,116,59>>, first |-> 10643, second |-> -1], \* 'lparlt;'
  [name |-> <<108,114,97,114,114,59>>, first |-> 8646, second |-> -1], \* 'lrarr;'
  [name |-> <<108,114,99,111,114,110,101,114,59>>, first |-> 8991, second |-> -1], \* 'lrcorner;'
  [name |-> <<108,114,104,97,114,59>>, first |-> 8651, second |-> -1], \* 'lrhar;'
  [name |-> <<108,114,104,97,114,100,59>>, first |-> 10605, second |-> -1], \* 'lrhard;'
  [name |-> <<108,114,109,59>>, first |-> 8206, second |-> -1], \* 'lrm;'
  [name |-> <<108,114,116,114,105,59>>, first |-> 8895, second |-> -1], \* 'lrtri;'
  [name |-> <<108,115,97,113,117,111,59>>, first |-> 8249, second |-> -1], \* 'lsaquo;'
  [name |-> <<108,115,99,114,59>>, first |-> 120001, second |-> -1], \* 'lscr;'
  [name |-> <<108,115,104,59>>, first |-> 8624, second |-> -1], \* 'lsh;'
  [name |-> <<108,115,105,109,59>>, first |-> 8818, second |-> -1], \* 'lsim;'
  [name |-> <<108,115,105,109,101,59>>, first |-> 10893, second |-> -1], \* 'lsime;'
  [name |-> <<108,115,105,109,103,59>>, first |-> 10895, second |-> -1], \* 'lsimg;'
  [name |-> <<108,115,113,98,59>>, first |-> 91, second |-> -1], \* 'lsqb;'
  [name |-> <<108,115,113,117,111,59>>, first |-> 8216, second |-> -1], \* 'lsquo;'
  [name |-> <<108,115,113,117,111,114,59>>, first |-> 8218, second |-> -1], \* 'lsquor;'
  [name |-> <<108,115,116,114,111,107,59>>, first |-> 322, second |-> -1], \* 'lstrok;'
  [name |-> <<108,116,59>>, first |-> 60, second |-> -1], \* 'lt;'
  [name |-> <<108,116>>, first |-> 60, second |-> -1], \* 'lt'
  [name |-> <<108,116,99,99,59>>, first |-> 10918, second |-> -1], \* 'ltcc;'
  [name |-> <<108,116,99,105,114,59>>, first |-> 10873, second |-> -1], \* 'ltcir;'
  [name |-> <<108,116,100,111,116,59>>, first |-> 8918, second |-> -1], \* 'ltdot;'
  [name |-> <<108,116,104,114,101,101,59>>, first |-> 8907, second |-> -1], \* 'lthree;'
  [name |-> <<108,116,105,109,101,115,59>>, first |-> 8905, second |-> -1], \* 'ltimes;'
  [name |-> <<108,116,108,97,114,114,59>>, first |-> 10614, second |-> -1], \* 'ltlarr;'
  [name |-> <<108,116,113,117,101,115,116,59>>, first |-> 10875, second |-> -1], \* 'ltquest;'
  [name |-> <<108,116,114,80,97,114,59>>, first |-> 10646, second |-> -1], \* 'ltrPar;'
  [name |-> <<108,116,114,105,59>>, first |-> 9667, second |-> -1], \* 'ltri;'
  [name |-> <<108,116,114,105,101,59>>, first |-> 8884, second |-> -1], \* 'ltrie;'
  [name |-> <<108,116,114,105,102,59>>, first |-> 9666, second |-> -1], \* 'ltrif;'
  [name |-> <<108,117,114,100,115,104,97,114,59>>, first |-> 10570, second |-> -1], \* 'lurdshar;'
  [name |-> <<108,117,114,117,104,97,114,59>>, first |-> 10598, second |-> -1], \* 'luruhar;'
  [name |-> <<108,118,101,114,116,110,101,113,113,59>>, first |-> 8808, second |-> 65024], \* 'lvertneqq;'
  [name |-> <<108,118,110,69,59>>, first |-> 8808, second |-> 65024], \* 'lvnE;'
  [name |-> <<109,68,68,111,116,59>>, first |-> 8762, second |-> -1], \* 'mDDot;'
  [name |-> <<109,97,99,114,59>>, first |-> 175, second |-> -1], \* 'macr;'
  [name |-> <<109,97,99,114>>, first |-> 175, second |-> -1], \* 'macr'
  [name |-> <<109,97,108,101,59>>, first |-> 9794, second |-> -1], \* 'male;'
  [name |-> <<109,97,108,116,59>>, first |-> 10016, second |-> -1], \* 'malt;'
  [name |-> <<109,97,108,116,101,115,101,59>>, first |-> 10016, second |-> -1], \* 'maltese;'
  [name |-> <<109,97,112,59>>, first |-> 8614, second |-> -1], \* 'map;'
  [name |-> <<109,97,112,115,116,111,59>>, first |-> 8614, second |-> -1], \* 'mapsto;'
  [name |-> <<109,97,112,115,116,111,100,111,119,110,59>>, first |-> 8615, second |-> -1], \* 'mapstodown;'
  [name |-> <<109,97,112,115,116,111,108,101,102,116,59>>, first |-> 8612, second |-> -1], \* 'mapstoleft;'
  [name |-> <<109,97,112,115,116,111,117,112,59>>, first |-> 8613, second |-> -1], \* 'mapstoup;'
  [name |-> <<109,97,114,107,101,114,59>>, first |-> 9646, second |-> -1], \* 'marker;'
  [name |-> <<109,99,111,109,109,97,59>>, first |-> 10793, second |-> -1], \* 'mcomma;'
  [name |-> <<109,99,121,59>>, first |-> 1084, second |-> -1], \* 'mcy;'
  [name |-> <<109,100,97,115,104,59>>, first |-> 8212, second |-> -1], \* 'mdash;'
  [name |-> <<109,101,97,115,117,114,101,100,97,110,103,108,101,59>>, first |-> 8737, second |-> -1], \* 'measuredangle;'
  [name |-> <<109,102,114,59>>, first |-> 120106, second |-> -1], \* 'mfr;'
  [name |-> <<109,104,111,59>>, first |-> 8487, second |-> -1], \* 'mho;'
  [name |-> <<109,105,99,114,111,59>>, first |-> 181, second |-> -1], \* 'micro;'
  [name |-> <<109,105,99,114,111>>, first |-> 181, second |-> -1], \* 'micro'
  [name |-> <<109,105,100,59>>, first |-> 8739, second |-> -1], \* 'mid;'
  [name |-> <<109,105,100,97,115,116,59>>, first |-> 42, second |-> -1], \* 'midast;'
  [name |-> <<109,105,100,99,105,114,59>>, first |-> 10992, second |-> -1], \* 'midcir;'
  [name |-> <<109,105,100,100,111,116,59>>, first |-> 183, second |-> -1], \* 'middot;'
  [name |-> <<109,105,100,100,111,116>>, first |-> 183, second |-> -1], \* 'middot'
  [name |-> <<109,105,110,117,115,59>>, first |-> 8722, second |-> -1], \* 'minus;'
  [name |-> <<109,105,110,117,115,98,59>>, first |-> 8863, second |-> -1], \* 'minusb;'
  [name |-> <<109,105,110,117,115,100,59>>, first |-> 8760, second |-> -1], \* 'minusd;'
  [name |-> <<109,105,110,117,115,100,117,59>>, first |-> 10794, second |-> -1], \* 'minusdu;'
  [name |-> <<109,108,99,112,59>>, first |-> 10971, second |-> -1], \* 'mlcp;'
  [name |-> <<109,108,100,114,59>>, first |-> 8230, second |-> -1], \* 'mldr;'
  [name |-> <<109,110,112,108,117,115,59>>, first |-> 8723, second |-> -1], \* 'mnplus;'
  [name |-> <<109,111,100,101,108,115,59>>, first |-> 8871, second |-> -1], \* 'models;'
  [name |-> <<109,111,112,102,59>>, first |-> 120158, second |-> -1], \* 'mopf;'
  [name |-> <<109,112,59>>, first |-> 8723, second |-> -1], \* 'mp;'
  [name |-> <<109,115,99,114,59>>, first |-> 120002, second |-> -1], \* 'mscr;'
  [name |-> <<109,115,116,112,111,115,59>>, first |-> 8766, second |-> -1], \* 'mstpos;'
  [name |-> <<109,117,59>>, first |-> 956, second |-> -1], \* 'mu;'
  [name |-> <<109,117,108,116,105,109,97,112,59>>, first |-> 8888, second |-> -1], \* 'multimap;'
  [name |-> <<109,117,109,97,112,59>>, first |-> 8888, second |-> -1], \* 'mumap;'
  [name |-> <<110,71,103,59>>, first |-> 8921, second |-> 824], \* 'nGg;'
  [name |-> <<110,71,116,59>>, first |-> 8811, second |-> 8402], \* 'nGt;'
  [name |-> <<110,71,116,118,59>>, first |-> 8811, second |-> 824], \* 'nGtv;'
  [name |-> <<110,76,101,102,116,97,114,114,111,119,59>>, first |-> 8653, second |-> -1], \* 'nLeftarrow;'
  [name |-> <<110,76,101,102,116,114,105,103,104,116,97,114,114,111,119,59>>, first |-> 8654, second |-> -1], \* 'nLeftrightarrow;'
  [name |-> <<110,76,108,59>>, first |-> 8920, second |-> 824], \* 'nLl;'
  [name |-> <<110,76,116,59>>, first |-> 8810, second |-> 8402], \* 'nLt;'
  [name |-> <<110,76,116,118,59>>, first |-> 8810, second |-> 824], \* 'nLtv;'
  [name |-> <<110,82,105,103,104,116,97,114,114,111,119,59>>, first |-> 8655, second |-> -1], \* 'nRightarrow;'
  [name |-> <<110,86,68,97,115,104,59>>, first |-> 8879, second |-> -1], \* 'nVDash;'
  [name |-> <<110,86,100,97,115,104,59>>, first |-> 8878, second |-> -1], \* 'nVdash;'
  [name |-> <<110,97,98,108,97,59>>, first |-> 8711, second |-> -1], \* 'nabla;'
  [name |-> <<110,97,99,117,116,101,59>>, first |-> 324, second |-> -1], \* 'nacute;'
  [name |-> <<110,97,110,103,59>>, first |-> 8736, second |-> 8402], \* 'nang;'
  [name |-> <<110,97,112,59>>, first |-> 8777, second |-> -1], \* 'nap;'
  [name |-> <<110,97,112,69,59>>, first |-> 10864, second |-> 824], \* 'napE;'
  [name |-> <<110,97,112,105,100,59>>, first |-> 8779, second |-> 824], \* 'napid;'
  [name |-> <<110,97,112,111,115,59>>, first |-> 329, second |-> -1], \* 'napos;'
  [name |-> <<110,97,112,112,114,111,120,59>>, first |-> 8777, second |-> -1], \* 'napprox;'
  [name |-> <<110,97,116,117,114,59>>, first |-> 9838, second |-> -1], \* 'natur;'
  [name |-> <<110,97,116,117,114,97,108,59>>, first |-> 9838, second |-> -1], \* 'natural;'
  [name |-> <<110,97,116,117,114,97,108,115,59>>, first |-> 8469, second |-> -1], \* 'naturals;'
  [name |-> <<110,98,115,112,59>>, first |-> 160, second |-> -1], \* 'nbsp;'
  [name |-> <<110,98,115,112>>, first |-> 160, second |-> -1], \* 'nbsp'
  [name |-> <<110,98,117,109,112,59>>, first |-> 8782, second |-> 824], \* 'nbump;'
  [name |-> <<110,98,117,109,112,101,59>>, first |-> 8783, second |-> 824], \* 'nbumpe;'
  [name |-> <<110,99,97,112,59>>, first |-> 10819, second |-> -1], \* 'ncap;'
  [name |-> <<110,99,97,114,111,110,59>>, first |-> 328, second |-> -1], \* 'ncaron;'
  [name |-> <<110,99,101,100,105,108,59>>, first |-> 326, second |-> -1], \* 'ncedil;'
  [name |-> <<110,99,111,110,103,59>>, first |-> 8775, second |-> -1], \* 'ncong;'
  [name |-> <<110,99,111,110,103,100,111,116,59>>, first |-> 10861, second |-> 824], \* 'ncongdot;'
  [name |-> <<110,99,117,112,59>>, first |-> 10818, second |-> -1], \* 'ncup;'
  [name |-> <<110,99,121,59>>, first |-> 1085, second |-> -1], \* 'ncy;'
  [name |-> <<110,100,97,115,104,59>>, first |-> 8211, second |-> -1], \* 'ndash;'
  [name |-> <<110,101,59>>, first |-> 8800, second |-> -1], \* 'ne;'
  [name |-> <<110,101,65,114,114,59>>, first |-> 8663, second |-> -1], \* 'neArr;'
  [name |-> <<110,101,97,114,104,107,59>>, first |-> 10532, second |-> -1], \* 'nearhk;'
  [name |-> <<110,101,97,114,114,59>>, first |-> 8599, second |-> -1], \* 'nearr;'
  [name |-> <<110,101,97,114,114,111,119,59>>, first |-> 8599, second |-> -1], \* 'nearrow;'
  [name |-> <<110,101,100,111,116,59>>, first |-> 8784, second |-> 824], \* 'nedot;'
  [name |-> <<110,101,113,117,105,118,59>>, first |-> 8802, second |-> -1], \* 'nequiv;'
  [name |-> <<110,101,115,101,97,114,59>>, first |-> 10536, second |-> -1], \* 'nesear;'
  [name |-> <<110,101,115,105,109,59>>, first |-> 8770, second |-> 824], \* 'nesim;'
  [name |-> <<110,101,120,105,115,116,59>>, first |-> 8708, second |-> -1], \* 'nexist;'
  [name |-> <<110,101,120,105,115,116,115,59>>, first |-> 8708, second |-> -1], \* 'nexists;'
  [name |-> <<110,102,114,59>>, first |-> 120107, second |-> -1], \* 'nfr;'
  [name |-> <<110,103,69,59>>, first |-> 8807, second |-> 824], \* 'ngE;'
  [name |-> <<110,103,101,59>>, first |-> 8817, second |-> -1], \* 'nge;'
  [name |-> <<110,103,101,113,59>>, first |-> 8817, second |-> -1], \* 'ngeq;'
  [name |-> <<110,103,101,113,113,59>>, first |-> 8807, second |-> 824], \* 'ngeqq;'
  [name |-> <<110,103,101,113,115,108,97,110,116,59>>, first |-> 10878, second |-> 824], \* 'ngeqslant;'
  [name |-> <<110,103,101,115,59>>, first |-> 10878, second |-> 824], \* 'nges;'
  [name |-> <<110,103,115,105,109,59>>, first |-> 8821, second |-> -1], \* 'ngsim;'
  [name |-> <<110,103,116,59>>, first |-> 8815, second |-> -1], \* 'ngt;'
  [name |-> <<110,103,116,114,59>>, first |-> 8815, second |-> -1], \* 'ngtr;'
  [name |-> <<110,104,65,114,114,59>>, first |-> 8654, second |-> -1], \* 'nhArr;'
  [name |-> <<110,104,97,114,114,59>>, first |-> 8622, second |-> -1], \* 'nharr;'
  [name |-> <<110,104,112,97,114,59>>, first |-> 10994, second |-> -1], \* 'nhpar;'
  [name |-> <<110,105,59>>, first |-> 8715, second |-> -1], \* 'ni;'
  [name |-> <<110,105,115,59>>, first |-> 8956, second |-> -1], \* 'nis;'
  [name |-> <<110,105,115,100,59>>, first |-> 8954, second |-> -1], \* 'nisd;'
  [name |-> <<110,105,118,59>>, first |-> 8715, second |-> -1], \* 'niv;'
  [name |-> <<110,106,99,121,59>>, first |-> 1114, second |-> -1], \* 'njcy;'
  [name |-> <<110,108,65,114,114,59>>, first |-> 8653, second |-> -1], \* 'nlArr;'
  [name |-> <<110,108,69,59>>, first |-> 8806, second |-> 824], \* 'nlE;'
  [name |-> <<110,108,97,114,114,59>>, first |-> 8602, second |-> -1], \* 'nlarr;'
  [name |-> <<110,108,100,114,59>>, first |-> 8229, second |-> -1], \* 'nldr;'
  [name |-> <<110,108,101,59>>, first |-> 8816, second |-> -1], \* 'nle;'
  [name |-> <<110,108,101,102,116,97,114,114,111,119,59>>, first |-> 8602, second |-> -1], \* 'nleftarrow;'
  [name |-> <<110,108,101,102,116,114,105,103,104,116,97,114,114,111,119,59>>, first |-> 8622, second |-> -1], \* 'nleftrightarrow;'
  [name |-> <<110,108,101,113,59>>, first |-> 8816, second |-> -1], \* 'nleq;'
  [name |-> <<110,108,101,113,113,59>>, first |-> 8806, second |-> 824], \* 'nleqq;'
  [name |-> <<110,108,101,113,115,108,97,110,116,59>>, first |-> 10877, second |-> 824], \* 'nleqslant;'
  [name |-> <<110,108,101,115,59>>, first |-> 10877, second |-> 824], \* 'nles;'
  [name |-> <<110,108,101,115,115,59>>, first |-> 8814, second |-> -1], \* 'nless;'
  [name |-> <<110,108,115,105,109,59>>, first |-> 8820, second |-> -1], \* 'nlsim;'
  [name |-> <<110,108,116,59>>, first |-> 8814, second |-> -1], \* 'nlt;'
  [name |-> <<110,108,116,114,105,59>>, first |-> 8938, second |-> -1], \* 'nltri;'
  [name |-> <<110,108,116,114,105,101,59>>, first |-> 8940, second |-> -1], \* 'nltrie;'
  [name |-> <<110,109,105,100,59>>, first |-> 8740, second |-> -1], \* 'nmid;'
  [name |-> <<110,111,112,102,59>>, first |-> 120159, second |-> -1], \* 'nopf;'
  [name |-> <<110,111,116,59>>, first |-> 172, second |-> -1], \* 'not;'
  [name |-> <<110,111,116,105,110,59>>, first |-> 8713, second |-> -1], \* 'notin;'
  [name |-> <<110,111,116,105,110,69,59>>, first |-> 8953, second |-> 824], \* 'notinE;'
  [name |-> <<110,111,116,105,110,100,111,116,59>>, first |-> 8949, second |-> 824], \* 'notindot;'
  [name |-> <<110,111,116,105,110,118,97,59>>, first |-> 8713, second |-> -1], \* 'notinva;'
  [name |-> <<110,111,116,105,110,118,98,59>>, first |-> 8951, second |-> -1], \* 'notinvb;'
  [name |-> <<110,111,116,105,110,118,99,59>>, first |-> 8950, second |-> -1], \* 'notinvc;'
  [name |-> <<110,111,116,110,105,59>>, first |-> 8716, second |-> -1], \* 'notni;'
  [name |-> <<110,111,116,110,105,118,97,59>>, first |-> 8716, second |-> -1], \* 'notniva;'
  [name |-> <<110,111,116,110,105,118,98,59>>, first |-> 8958, second |-> -1], \* 'notnivb;'
  [name |-> <<110,111,116,110,105,118,99,59>>, first |-> 8957, second |-> -1], \* 'notnivc;'
  [name |-> <<110,111,116>>, first |-> 172, second |-> -1], \* 'not'
  [name |-> <<110,112,97,114,59>>, first |-> 8742, second |-> -1], \* 'npar;'
  [name |-> <<110,112,97,114,97,108,108,101,108,59>>, first |-> 8742, second |-> -1], \* 'nparallel;'
  [name |-> <<110,112,97,114,115,108,59>>, first |-> 11005, second |-> 8421], \* 'nparsl;'
  [name |-> <<110,112,97,114,116,59>>, first |-> 8706, second |-> 824], \* 'npart;'
  [name |-> <<110,112,111,108,105,110,116,59>>, first |-> 10772, second |-> -1], \* 'npolint;'
  [name |-> <<110,112,114,59>>, first |-> 8832, second |-> -1], \* 'npr;'
  [name |-> <<110,112,114,99,117,101,59>>, first |-> 8928, second |-> -1], \* 'nprcue;'
  [name |-> <<110,112,114,101,59>>, first |-> 10927, second |-> 824], \* 'npre;'
  [name |-> <<110,112,114,101,99,59>>, first |-> 8832, second |-> -1], \* 'nprec;'
  [name |-> <<110,112,114,101,99,101,113,59>>, first |-> 10927, second |-> 824], \* 'npreceq;'
  [name |-> <<110,114,65,114,114,59>>, first |-> 8655, second |-> -1], \* 'nrArr;'
  [name |-> <<110,114,97,114,114,59>>, first |-> 8603, second |-> -1], \* 'nrarr;'
  [name |-> <<110,114,97,114,114,99,59>>, first |-> 10547, second |-> 824], \* 'nrarrc;'
  [name |-> <<110,114,97,114,114,119,59>>, first |-> 8605, second |-> 824], \* 'nrarrw;'
  [name |-> <<110,114,105,103,104,116,97,114,114,111,119,59>>, first |-> 8603, second |-> -1], \* 'nrightarrow;'
  [name |-> <<110,114,116,114,105,59>>, first |-> 8939, second |-> -1], \* 'nrtri;'
  [name |-> <<110,114,116,114,105,101,59>>, first |-> 8941, second |-> -1], \* 'nrtrie;'
  [name |-> <<110,115,99,59>>, first |-> 8833, second |-> -1], \* 'nsc;'
  [name |-> <<110,115,99,99,117,101,59>>, first |-> 8929, second |-> -1], \* 'nsccue;'
  [name |-> <<110,115,99,101,59>>, first |-> 10928, second |-> 824], \* 'nsce;'
  [name |-> <<110,115,99,114,59>>, first |-> 120003, second |-> -1], \* 'nscr;'
  [name |-> <<110,115,104,111,114,116,109,105,100,59>>, first |-> 8740, second |-> -1], \* 'nshortmid;'
  [name |-> <<110,115,104,111,114,116,112,97,114,97,108,108,101,108,59>>, first |-> 8742, second |-> -1], \* 'nshortparallel;'
  [name |-> <<110,115,105,109,59>>, first |-> 8769, second |-> -1], \* 'nsim;'
  [name |-> <<110,115,105,109,101,59>>, first |-> 8772, second |-> -1], \* 'nsime;'
  [name |-> <<110,115,105,109,101,113,59>>, first |-> 8772, second |-> -1], \* 'nsimeq;'
  [name |-> <<110,115,109,105,100,59>>, first |-> 8740, second |-> -1], \* 'nsmid;'
  [name |-> <<110,115,112,97,114,59>>, first |-> 8742, second |-> -1], \* 'nspar;'
  [name |-> <<110,115,113,115,117,98,101,59>>, first |-> 8930, second |-> -1], \* 'nsqsube;'
  [name |-> <<110,115,113,115,117,112,101,59>>, first |-> 8931, second |-> -1], \* 'nsqsupe;'
  [name |-> <<110,115,117,98,59>>, first |-> 8836, second |-> -1], \* 'nsub;'
  [name |-> <<110,115,117,98,69,59>>, first |-> 10949, second |-> 824], \* 'nsubE;'
  [name |-> <<110,115,117,98,101,59>>, first |-> 8840, second |-> -1], \* 'nsube;'
  [name |-> <<110,115,117,98,115,101,116,59>>, first |-> 8834, second |-> 8402], \* 'nsubset;'
  [name |-> <<110,115,117,98,115,101,116,101,113,59>>, first |-> 8840, second |-> -1], \* 'nsubseteq;'
  [name |-> <<110,115,117,98,115,101,116,101,113,113,59>>, first |-> 10949, second |-> 824], \* 'nsubseteqq;'
  [name |-> <<110,115,117,99,99,59>>, first |-> 8833, second |-> -1], \* 'nsucc;'
  [name |-> <<110,115,117,99,99,101,113,59>>, first |-> 10928, second |-> 824], \* 'nsucceq;'
  [name |-> <<110,115,117,112,59>>, first |-> 8837, second |-> -1], \* 'nsup;'
  [name |-> <<110,115,117,112,69,59>>, first |-> 10950, second |-> 824], \* 'nsupE;'
  [name |-> <<110,115,117,112,101,59>>, first |-> 8841, second |-> -1], \* 'nsupe;'
  [name |-> <<110,115,117,112,115,101,116,59>>, first |-> 8835, second |-> 8402], \* 'nsupset;'
  [name |-> <<110,115,117,112,115,101,116,101,113,59>>, first |-> 8841, second |-> -1], \* 'nsupseteq;'
  [name |-> <<110,115,117,112,115,101,116,101,113,113,59>>, first |-> 10950, second |-> 824], \* 'nsupseteqq;'
  [name |-> <<110,116,103,108,59>>, first |-> 8825, second |-> -1], \* 'ntgl;'
  [name |-> <<110,116,105,108,100,101,59>>, first |-> 241, second |-> -1], \* 'ntilde;'
  [name |-> <<110,116,105,108,100,101>>, first |-> 241, second |-> -1], \* 'ntilde'
  [name |-> <<110,116,108,103,59>>, first |-> 8824, second |-> -1], \* 'ntlg;'
  [name |-> <<110,116,114,105,97,110,103,108,101,108,101,102,116,59>>, first |-> 8938, second |-> -1], \* 'ntriangleleft;'
  [name |-> <<110,116,114,105,97,110,103,108,101,108,101,102,116,101,113,59>>, first |-> 8940, second |-> -1], \* 'ntrianglelefteq;'
  [name |-> <<110,116,114,105,97,110,103,108,101,114,105,103,104,116,59>>, first |-> 8939, second |-> -1], \* 'ntriangleright;'
  [name |-> <<110,116,114,105,97,110,103,108,101,114,105,103,104,116,101,113,59>>, first |-> 8941, second |-> -1], \* 'ntrianglerighteq;'
  [name |-> <<110,117,59>>, first |-> 957, second |-> -1], \* 'nu;'
  [name |-> <<110,117,109,59>>, first |-> 35, second |-> -1], \* 'num;'
  [name |-> <<110,117,109,101,114,111,59>>, first |-> 8470, second |-> -1], \* 'numero;'
  [name |-> <<110,117,109,115,112,59>>, first |-> 8199, second |-> -1], \* 'numsp;'
  [name |-> <<110,118,68,97,115,104,59>>, first |-> 8877, second |-> -1], \* 'nvDash;'
  [name |-> <<110,118,72,97,114,114,59>>, first |-> 10500, second |-> -1], \* 'nvHarr;'
  [name |-> <<110,118,97,112,59>>, first |-> 8781, second |-> 8402], \* 'nvap;'
  [name |-> <<110,118,100,97,115,104,59>>, first |-> 8876, second |-> -1], \* 'nvdash;'
  [name |-> <<110,118,103,101,59>>, first |-> 8805, second |-> 8402], \* 'nvge;'
  [name |-> <<110,118,103,116,59>>, first |-> 62, second |-> 8402], \* 'nvgt;'
  [name |-> <<110,118,105,110,102,105,110,59>>, first |-> 10718, second |-> -1], \* 'nvinfin;'
  [name |-> <<110,118,108,65,114,114,59>>, first |-> 10498, second |-> -1], \* 'nvlArr;'
  [name |-> <<110,118,108,101,59>>, first |-> 8804, second |-> 8402], \* 'nvle;'
  [name |-> <<110,118,108,116,59>>, first |-> 60, second |-> 8402], \* 'nvlt;'
  [name |-> <<110,118,108,116,114,105,101,59>>, first |-> 8884, second |-> 8402], \* 'nvltrie;'
  [name |-> <<110,118,114,65,114,114,59>>, first |-> 10499, second |-> -1], \* 'nvrArr;'
  [name |-> <<110,118,114,116,114,105,101,59>>, first |-> 8885, second |-> 8402], \* 'nvrtrie;'
  [name |-> <<110,118,115,105,109,59>>, first |-> 8764, second |-> 8402], \* 'nvsim;'
  [name |-> <<110,119,65,114,114,59>>, first |-> 8662, second |-> -1], \* 'nwArr;'
  [name |-> <<110,119,97,114,104,107,59>>, first |-> 10531, second |-> -1], \* 'nwarhk;'
  [name |-> <<110,119,97,114,114,59>>, first |-> 8598, second |-> -1], \* 'nwarr;'
  [name |-> <<110,119,97,114,114,111,119,59>>, first |-> 8598, second |-> -1], \* 'nwarrow;'
  [name |-> <<110,119,110,101,97,114,59>>, first |-> 10535, second |-> -1], \* 'nwnear;'
  [name |-> <<111,83,59>>, first |-> 9416, second |-> -1], \* 'oS;'
  [name |-> <<111,97,99,117,116,101,59>>, first |-> 243, second |-> -1], \* 'oacute;'
  [name |-> <<111,97,99,117,116,101>>, first |-> 243, second |-> -1], \* 'oacute'
  [name |-> <<111,97,115,116,59>>, first |-> 8859, second |-> -1], \* 'oast;'
  [name |-> <<111,99,105,114,59>>, first |-> 8858, second |-> -1], \* 'ocir;'
  [name |-> <<111,99,105,114,99,59>>, first |-> 244, second |-> -1], \* 'ocirc;'
  [name |-> <<111,99,105,114,99>>, first |-> 244, second |-> -1], \* 'ocirc'
  [name |-> <<111,99,121,59>>, first |-> 1086, second |-> -1], \* 'ocy;'
  [name |-> <<111,100,97,115,104,59>>, first |-> 8861, second |-> -1], \* 'odash;'
  [name |-> <<111,100,98,108,97,99,59>>, first |-> 337, second |-> -1], \* 'odblac;'
  [name |-> <<111,100,105,118,59>>, first |-> 10808, second |-> -1], \* 'odiv;'
  [name |-> <<111,100,111,116,59>>, first |-> 8857, second |-> -1], \* 'odot;'
  [name |-> <<111,100,115,111,108,100,59>>, first |-> 10684, second |-> -1], \* 'odsold;'
  [name |-> <<111,101,108,105,103,59>>, first |-> 339, second |-> -1], \* 'oelig;'
  [name |-> <<111,102,99,105,114,59>>, first |-> 10687, second |-> -1], \* 'ofcir;'
  [name |-> <<111,102,114,59>>, first |-> 120108, second |-> -1], \* 'ofr;'
  [name |-> <<111,103,111,110,59>>, first |-> 731, second |-> -1], \* 'ogon;'
  [name |-> <<111,103,114,97,118,101,59>>, first |-> 242, second |-> -1], \* 'ograve;'
  [name |-> <<111,103,114,97,118,101>>, first |-> 242, second |-> -1], \* 'ograve'
  [name |-> <<111,103,116,59>>, first |-> 10689, second |-> -1], \* 'ogt;'
  [name |-> <<111,104,98,97,114,59>>, first |-> 10677, second |-> -1], \* 'ohbar;'
  [name |-> <<111,104,109,59>>, first |-> 937, second |-> -1], \* 'ohm;'
  [name |-> <<111,105,110,116,59>>, first |-> 8750, second |-> -1], \* 'oint;'
  [name |-> <<111,108,97,114,114,59>>, first |-> 8634, second |-> -1], \* 'olarr;'
  [name |-> <<111,108,99,105,114,59>>, first |-> 10686, second |-> -1], \* 'olcir;'
  [name |-> <<111,108,99,114,111,115,115,59>>, first |-> 10683, second |-> -1], \* 'olcross;'
  [name |-> <<111,108,105,110,101,59>>, first |-> 8254, second |-> -1], \* 'oline;'
  [name |-> <<111,108,116,59>>, first |-> 10688, second |-> -1], \* 'olt;'
  [name |-> <<111,109,97,99,114,59>>, first |-> 333, second |-> -1], \* 'omacr;'
  [name |-> <<111,109,101,103,97,59>>, first |-> 969, second |-> -1], \* 'omega;'
  [name |-> <<111,109,105,99,114,111,110,59>>, first |-> 959, second |-> -1], \* 'omicron;'
  [name |-> <<111,109,105,100,59>>, first |-> 10678, second |-> -1], \* 'omid;'
  [name |-> <<111,109,105,110,117,115,59>>, first |-> 8854, second |-> -1], \* 'ominus;'
  [name |-> <<111,111,112,102,59>>, first |-> 120160, second |-> -1], \* 'oopf;'
  [name |-> <<111,112,97,114,59>>, first |-> 10679, second |-> -1], \* 'opar;'
  [name |-> <<111,112,101,114,112,59>>, first |-> 10681, second |-> -1], \* 'operp;'
  [name |-> <<111,112,108,117,115,59>>, first |-> 8853, second |-> -1], \* 'oplus;'
  [name |-> <<111,114,59>>, first |-> 8744, second |-> -1], \* 'or;'
  [name |-> <<111,114,97,114,114,59>>, first |-> 8635, second |-> -1], \* 'orarr;'
  [name |-> <<111,114,100,59>>, first |-> 10845, second |-> -1], \* 'ord;'
  [name |-> <<111,114,100,101,114,59>>, first |-> 8500, second |-> -1], \* 'order;'
  [name |-> <<111,114,100,101,114,111,102,59>>, first |-> 8500, second |-> -1], \* 'orderof;'
  [name |-> <<111,114,100,102,59>>, first |-> 170, second |-> -1], \* 'ordf;'
  [name |-> <<111,114,100,102>>, first |-> 170, second |-> -1], \* 'ordf'
  [name |-> <<111,114,100,109,59>>, first |-> 186, second |-> -1], \* 'ordm;'
  [name |-> <<111,114,100,109>>, first |-> 186, second |-> -1], \* 'ordm'
  [name |-> <<111,114,105,103,111,102,59>>, first |-> 8886, second |-> -1], \* 'origof;'
  [name |-> <<111,114,111,114,59>>, first |-> 10838, second |-> -1], \* 'oror;'
  [name |-> <<111,114,115,108,111,112,101,59>>, first |-> 10839, second |-> -1], \* 'orslope;'
  [name |-> <<111,114,118,59>>, first |-> 10843, second |-> -1], \* 'orv;'
  [name |-> <<111,115,99,114,59>>, first |-> 8500, second |-> -1], \* 'oscr;'
  [name |-> <<111,115,108,97,115,104,59>>, first |-> 248, second |-> -1], \* 'oslash;'
  [name |-> <<111,115,108,97,115,104>>, first |-> 248, second |-> -1], \* 'oslash'
  [name |-> <<111,115,111,108,59>>, first |-> 8856, second |-> -1], \* 'osol;'
  [name |-> <<111,116,105,108,100,101,59>>, first |-> 245, second |-> -1], \* 'otilde;'
  [name |-> <<111,116,105,108,100,101>>, first |-> 245, second |-> -1], \* 'otilde'
  [name |-> <<111,116,105,109,101,115,59>>, first |-> 8855, second |-> -1], \* 'otimes;'
  [name |-> <<111,116,105,109,101,115,97,115,59>>, first |-> 10806, second |-> -1], \* 'otimesas;'
  [name |-> <<111,117,109,108,59>>, first |-> 246, second |-> -1], \* 'ouml;'
  [name |-> <<111,117,109,108>>, first |-> 246, second |-> -1], \* 'ouml'
  [name |-> <<111,118,98,97,114,59>>, first |-> 9021, second |-> -1], \* 'ovbar;'
  [name |-> <<112,97,114,59>>, first |-> 8741, second |-> -1], \* 'par;'
  [name |-> <<112,97,114,97,59>>, first |-> 182, second |-> -1], \* 'para;'
  [name |-> <<112,97,114,97>>, first |-> 182, second |-> -1], \* 'para'
  [name |-> <<112,97,114,97,108,108,101,108,59>>, first |-> 8741, second |-> -1], \* 'parallel;'
  [name |-> <<112,97,114,115,105,109,59>>, first |-> 10995, second |-> -1], \* 'parsim;'
  [name |-> <<112,97,114,115,108,59>>, first |-> 11005, second |-> -1], \* 'parsl;'
  [name |-> <<112,97,114,116,59>>, first |-> 8706, second |-> -1], \* 'part;'
  [name |-> <<112,99,121,59>>, first |-> 1087, second |-> -1], \* 'pcy;'
  [name |-> <<112,101,114,99,110,116,59>>, first |-> 37, second |-> -1], \* 'percnt;'
  [name |-> <<112,101,114,105,111,100,59>>, first |-> 46, second |-> -1], \* 'period;'
  [name |-> <<112,101,114,109,105,108,59>>, first |-> 8240, second |-> -1], \* 'permil;'
  [name |-> <<112,101,114,112,59>>, first |-> 8869, second |-> -1], \* 'perp;'
  [name |-> <<112,101,114,116,101,110,107,59>>, first |-> 8241, second |-> -1], \* 'pertenk;'
  [name |-> <<112,102,114,59>>, first |-> 120109, second |-> -1], \* 'pfr;'
  [name |-> <<112,104,105,59>>, first |-> 966, second |-> -1], \* 'phi;'
  [name |-> <<112,104,105,118,59>>, first |-> 981, second |-> -1], \* 'phiv;'
  [name |-> <<112,104,109,109,97,116,59>>, first |-> 8499, second |-> -1], \* 'phmmat;'
  [name |-> <<112,104,111,110,101,59>>, first |-> 9742, second |-> -1], \* 'phone;'
  [name |-> <<112,105,59>>, first |-> 960, second |-> -1], \* 'pi;'
  [name |-> <<112,105,116,99,104,102,111,114,107,59>>, first |-> 8916, second |-> -1], \* 'pitchfork;'
  [name |-> <<112,105,118,59>>, first |-> 982, second |-> -1], \* 'piv;'
  [name |-> <<112,108,97,110,99,107,59>>, first |-> 8463, second |-> -1], \* 'planck;'
  [name |-> <<112,108,97,110,99,107,104,59>>, first |-> 8462, second |-> -1], \* 'planckh;'
  [name |-> <<112,108,97,110,107,118,59>>, first |-> 8463, second |-> -1], \* 'plankv;'
  [name |-> <<112,108,117,115,59>>, first |-> 43, second |-> -1], \* 'plus;'
  [name |-> <<112,108,117,115,97,99,105,114,59>>, first |-> 10787, second |-> -1], \* 'plusacir;'
  [name |-> <<112,108,117,115,98,59>>, first |-> 8862, second |-> -1], \* 'plusb;'
  [name |-> <<112,108,117,115,99,105,114,59>>, first |-> 10786, second |-> -1], \* 'pluscir;'
  [name |-> <<112,108,117,115,100,111,59>>, first |-> 8724, second |-> -1], \* 'plusdo;'
  [name |-> <<112,108,117,115,100,117,59>>, first |-> 10789, second |-> -1], \* 'plusdu;'
  [name |-> <<112,108,117,115,101,59>>, first |-> 10866, second |-> -1], \* 'pluse;'
  [name |-> <<112,108,117,115,109,110,59>>, first |-> 177, second |-> -1], \* 'plusmn;'
  [name |-> <<112,108,117,115,109,110>>, first |-> 177, second |-> -1], \* 'plusmn'
  [name |-> <<112,108,117,115,115,105,109,59>>, first |-> 10790, second |-> -1], \* 'plussim;'
  [name |-> <<112,108,117,115,116,119,111,59>>, first |-> 10791, second |-> -1], \* 'plustwo;'
  [name |-> <<112,109,59>>, first |-> 177, second |-> -1], \* 'pm;'
  [name |-> <<112,111,105,110,116,105,110,116,59>>, first |-> 10773, second |-> -1], \* 'pointint;'
  [name |-> <<112,111,112,102,59>>, first |-> 120161, second |-> -1], \* 'popf;'
  [name |-> <<112,111,117,110,100,59>>, first |-> 163, second |-> -1], \* 'pound;'
  [name |-> <<112,111,117,110,100>>, first |-> 163, second |-> -1], \* 'pound'
  [name |-> <<112,114,59>>, first |-> 8826, second |-> -1], \* 'pr;'
  [name |-> <<112,114,69,59>>, first |-> 10931, second |-> -1], \* 'prE;'
  [name |-> <<112,114,97,112,59>>, first |-> 10935, second |-> -1], \* 'prap;'
  [name |-> <<112,114,99,117,101,59>>, first |-> 8828, second |-> -1], \* 'prcue;'
  [name |-> <<112,114,101,59>>, first |-> 10927, second |-> -1], \* 'pre;'
  [name |-> <<112,114,101,99,59>>, first |-> 8826, second |-> -1], \* 'prec;'
  [name |-> <<112,114,101,99,97,112,112,114,111,120,59>>, first |-> 10935, second |-> -1], \* 'precapprox;'
  [name |-> <<112,114,101,99,99,117,114,108,121,101,113,59>>, first |-> 8828, second |-> -1], \* 'preccurlyeq;'
  [name |-> <<112,114,101,99,101,113,59>>, first |-> 10927, second |-> -1], \* 'preceq;'
  [name |-> <<112,114,101,99,110,97,112,112,114,111,120,59>>, first |-> 10937, second |-> -1], \* 'precnapprox;'
  [name |-> <<112,114,101,99,110,101,113,113,59>>, first |-> 10933, second |-> -1], \* 'precneqq;'
  [name |-> <<112,114,101,99,110,115,105,109,59>>, first |-> 8936, second |-> -1], \* 'precnsim;'
  [name |-> <<112,114,101,99,115,105,109,59>>, first |-> 8830, second |-> -1], \* 'precsim;'
  [name |-> <<112,114,105,109,101,59>>, first |-> 8242, second |-> -1], \* 'prime;'
  [name |-> <<112,114,105,109,101,115,59>>, first |-> 8473, second |-> -1], \* 'primes;'
  [name |-> <<112,114,110,69,59>>, first |-> 10933, second |-> -1], \* 'prnE;'
  [name |-> <<112,114,110,97,112,59>>, first |-> 10937, second |-> -1], \* 'prnap;'
  [name |-> <<112,114,110,115,105,109,59>>, first |-> 8936, second |-> -1], \* 'prnsim;'
  [name |-> <<112,114,111,100,59>>, first |-> 8719, second |-> -1], \* 'prod;'
  [name |-> <<112,114,111,102,97,108,97,114,59>>, first |-> 9006, second |-> -1], \* 'profalar;'
  [name |-> <<112,114,111,102,108,105,110,101,59>>, first |-> 8978, second |-> -1], \* 'profline;'
  [name |-> <<112,114,111,102,115,117,114,102,59>>, first |-> 8979, second |-> -1], \* 'profsurf;'
  [name |-> <<112,114,111,112,59>>, first |-> 8733, second |-> -1], \* 'prop;'
  [name |-> <<112,114,111,112,116,111,59>>, first |-> 8733, second |-> -1], \* 'propto;'
  [name |-> <<112,114,115,105,109,59>>, first |-> 8830, second |-> -1], \* 'prsim;'
  [name |-> <<112,114,117,114,101,108,59>>, first |-> 8880, second |-> -1], \* 'prurel;'
  [name |-> <<112,115,99,114,59>>, first |-> 120005, second |-> -1], \* 'pscr;'
  [name |-> <<112,115,105,59>>, first |-> 968, second |-> -1], \* 'psi;'
  [name |-> <<112,117,110,99,115,112,59>>, first |-> 8200, second |-> -1], \* 'puncsp;'
  [name |-> <<113,102,114,59>>, first |-> 120110, second |-> -1], \* 'qfr;'
  [name |-> <<113,105,110,116,59>>, first |-> 10764, second |-> -1], \* 'qint;'
  [name |-> <<113,111,112,102,59>>, first |-> 120162, second |-> -1], \* 'qopf;'
  [name |-> <<113,112,114,105,109,101,59>>, first |-> 8279, second |-> -1], \* 'qprime;'
  [name |-> <<113,115,99,114,59>>, first |-> 120006, second |-> -1], \* 'qscr;'
  [name |-> <<113,117,97,116,101,114,110,105,111,110,115,59>>, first |-> 8461, second |-> -1], \* 'quaternions;'
  [name |-> <<113,117,97,116,105,110,116,59>>, first |-> 10774, second |-> -1], \* 'quatint;'
  [name |-> <<113,117,101,115,116,59>>, first |-> 63, second |-> -1], \* 'quest;'
  [name |-> <<113,117,101,115,116,101,113,59>>, first |-> 8799, second |-> -1], \* 'questeq;'
  [name |-> <<113,117,111,116,59>>, first |-> 34, second |-> -1], \* 'quot;'
  [name |-> <<113,117,111,116>>, first |-> 34, second |-> -1], \* 'quot'
  [name |-> <<114,65,97,114,114,59>>, first |-> 8667, second |-> -1], \* 'rAarr;'
  [name |-> <<114,65,114,114,59>>, first |-> 8658, second |-> -1], \* 'rArr;'
  [name |-> <<114,65,116,97,105,108,59>>, first |-> 10524, second |-> -1], \* 'rAtail;'
  [name |-> <<114,66,97,114,114,59>>, first |-> 10511, second |-> -1], \* 'rBarr;'
  [name |-> <<114,72,97,114,59>>, first |-> 10596, second |-> -1], \* 'rHar;'
  [name |-> <<114,97,99,101,59>>, first |-> 8765, second |-> 817], \* 'race;'
  [name |-> <<114,97,99,117,116,101,59>>, first |-> 341, second |-> -1], \* 'racute;'
  [name |-> <<114,97,100,105,99,59>>, first |-> 8730, second |-> -1], \* 'radic;'
  [name |-> <<114,97,101,109,112,116,121,118,59>>, first |-> 10675, second |-> -1], \* 'raemptyv;'
  [name |-> <<114,97,110,103,59>>, first |-> 10217, second |-> -1], \* 'rang;'
  [name |-> <<114,97,110,103,100,59>>, first |-> 10642, second |-> -1], \* 'rangd;'
  [name |-> <<114,97,110,103,101,59>>, first |-> 10661, second |-> -1], \* 'range;'
  [name |-> <<114,97,110,103,108,101,59>>, first |-> 10217, second |-> -1], \* 'rangle;'
  [name |-> <<114,97,113,117,111,59>>, first |-> 187, second |-> -1], \* 'raquo;'
  [name |-> <<114,97,113,117,111>>, first |-> 187, second |-> -1], \* 'raquo'
  [name |-> <<114,97,114,114,59>>, first |-> 8594, second |-> -1], \* 'rarr;'
  [name |-> <<114,97,114,114,97,112,59>>, first |-> 10613, second |-> -1], \* 'rarrap;'
  [name |-> <<114,97,114,114,98,59>>, first |-> 8677, second |-> -1], \* 'rarrb;'
  [name |-> <<114,97,114,114,98,102,115,59>>, first |-> 10528, second |-> -1], \* 'rarrbfs;'
  [name |-> <<114,97,114,114,99,59>>, first |-> 10547, second |-> -1], \* 'rarrc;'
  [name |-> <<114,97,114,114,102,115,59>>, first |-> 10526, second |-> -1], \* 'rarrfs;'
  [name |-> <<114,97,114,114,104,107,59>>, first |-> 8618, second |-> -1], \* 'rarrhk;'
  [name |-> <<114,97,114,114,108,112,59>>, first |-> 8620, second |-> -1], \* 'rarrlp;'
  [name |-> <<114,97,114,114,112,108,59>>, first |-> 10565, second |-> -1], \* 'rarrpl;'
  [name |-> <<114,97,114,114,115,105,109,59>>, first |-> 10612, second |-> -1], \* 'rarrsim;'
  [name |-> <<114,97,114,114,116,108,59>>, first |-> 8611, second |-> -1], \* 'rarrtl;'
  [name |-> <<114,97,114,114,119,59>>, first |-> 8605, second |-> -1], \* 'rarrw;'
  [name |-> <<114,97,116,97,105,108,59>>, first |-> 10522, second |-> -1], \* 'ratail;'
  [name |-> <<114,97,116,105,111,59>>, first |-> 8758, second |-> -1], \* 'ratio;'
  [name |-> <<114,97,116,105,111,110,97,108,115,59>>, first |-> 8474, second |-> -1], \* 'rationals;'
  [name |-> <<114,98,97,114,114,59>>, first |-> 10509, second |-> -1], \* 'rbarr;'
  [name |-> <<114,98,98,114,107,59>>, first |-> 10099, second |-> -1], \* 'rbbrk;'
  [name |-> <<114,98,114,97,99,101,59>>, first |-> 125, second |-> -1], \* 'rbrace;'
  [name |-> <<114,98,114,97,99,107,59>>, first |-> 93, second |-> -1], \* 'rbrack;'
  [name |-> <<114,98,114,107,101,59>>, first |-> 10636, second |-> -1], \* 'rbrke;'
  [name |-> <<114,98,114,107,115,108,100,59>>, first |-> 10638, second |-> -1], \* 'rbrksld;'
  [name |-> <<114,98,114,107,115,108,117,59>>, first |-> 10640, second |-> -1], \* 'rbrkslu;'
  [name |-> <<114,99,97,114,111,110,59>>, first |-> 345, second |-> -1], \* 'rcaron;'
  [name |-> <<114,99,101,100,105,108,59>>, first |-> 343, second |-> -1], \* 'rcedil;'
  [name |-> <<114,99,101,105,108,59>>, first |-> 8969, second |-> -1], \* 'rceil;'
  [name |-> <<114,99,117,98,59>>, first |-> 125, second |-> -1], \* 'rcub;'
  [name |-> <<114,99,121,59>>, first |-> 1088, second |-> -1], \* 'rcy;'
  [name |-> <<114,100,99,97,59>>, first |-> 10551, second |-> -1], \* 'rdca;'
  [name |-> <<114,100,108,100,104,97,114,59>>, first |-> 10601, second |-> -1], \* 'rdldhar;'
  [name |-> <<114,100,113,117,111,59>>, first |-> 8221, second |-> -1], \* 'rdquo;'
  [name |-> <<114,100,113,117,111,114,59>>, first |-> 8221, second |-> -1], \* 'rdquor;'
  [name |-> <<114,100,115,104,59>>, first |-> 8627, second |-> -1], \* 'rdsh;'
  [name |-> <<114,101,97,108,59>>, first |-> 8476, second |-> -1], \* 'real;'
  [name |-> <<114,101,97,108,105,110,101,59>>, first |-> 8475, second |-> -1], \* 'realine;'
  [name |-> <<114,101,97,108,112,97,114,116,59>>, first |-> 8476, second |-> -1], \* 'realpart;'
  [name |-> <<114,101,97,108,115,59>>, first |-> 8477, second |-> -1], \* 'reals;'
  [name |-> <<114,101,99,116,59>>, first |-> 9645, second |-> -1], \* 'rect;'
  [name |-> <<114,101,103,59>>, first |-> 174, second |-> -1], \* 'reg;'
  [name |-> <<114,101,103>>, first |-> 174, second |-> -1], \* 'reg'
  [name |-> <<114,102,105,115,104,116,59>>, first |-> 10621, second |-> -1], \* 'rfisht;'
  [name |-> <<114,102,108,111,111,114,59>>, first |-> 8971, second |-> -1], \* 'rfloor;'
  [name |-> <<114,102,114,59>>, first |-> 120111, second |-> -1], \* 'rfr;'
  [name |-> <<114,104,97,114,100,59>>, first |-> 8641, second |-> -1], \* 'rhard;'
  [name |-> <<114,104,97,114,117,59>>, first |-> 8640, second |-> -1], \* 'rharu;'
  [name |-> <<114,104,97,114,117,108,59>>, first |-> 10604, second |-> -1], \* 'rharul;'
  [name |-> <<114,104,111,59>>, first |-> 961, second |-> -1], \* 'rho;'
  [name |-> <<114,104,111,118,59>>, first |-> 1009, second |-> -1], \* 'rhov;'
  [name |-> <<114,105,103,104,116,97,114,114,111,119,59>>, first |-> 8594, second |-> -1], \* 'rightarrow;'
  [name |-> <<114,105,103,104,116,97,114,114,111,119,116,97,105,108,59>>, first |-> 8611, second |-> -1], \* 'rightarrowtail;'
  [name |-> <<114,105,103,104,116,104,97,114,112,111,111,110,100,111,119,110,59>>, first |-> 8641, second |-> -1], \* 'rightharpoondown;'
  [name |-> <<114,105,103,104,116,104,97,114,112,111,111,110,117,112,59>>, first |-> 8640, second |-> -1], \* 'rightharpoonup;'
  [name |-> <<114,105,103,104,116,108,101,102,116,97,114,114,111,119,115,59>>, first |-> 8644, second |-> -1], \* 'rightleftarrows;'
  [name |-> <<114,105,103,104,116,108,101,102,116,104,97,114,112,111,111,110,115,59>>, first |-> 8652, second |-> -1], \* 'rightleftharpoons;'
  [name |-> <<114,105,103,104,116,114,105,103,104,116,97,114,114,111,119,115,59>>, first |-> 8649, second |-> -1], \* 'rightrightarrows;'
  [name |-> <<114,105,103,104,116,115,113,117,105,103,97,114,114,111,119,59>>, first |-> 8605, second |-> -1], \* 'rightsquigarrow;'
  [name |-> <<114,105,103,104,116,116,104,114,101,101,116,105,109,101,115,59>>, first |-> 8908, second |-> -1], \* 'rightthreetimes;'
  [name |-> <<114,105,110,103,59>>, first |-> 730, second |-> -1], \* 'ring;'
  [name |-> <<114,105,115,105,110,103,100,111,116,115,101,113,59>>, first |-> 8787, second |-> -1], \* 'risingdotseq;'
  [name |-> <<114,108,97,114,114,59>>, first |-> 8644, second |-> -1], \* 'rlarr;'
  [name |-> <<114,108,104,97,114,59>>, first |-> 8652, second |-> -1], \* 'rlhar;'
  [name |-> <<114,108,109,59>>, first |-> 8207, second |-> -1], \* 'rlm;'
  [name |-> <<114,109,111,117,115,116,59>>, first |-> 9137, second |-> -1], \* 'rmoust;'
  [name |-> <<114,109,111,117,115,116,97,99,104,101,59>>, first |-> 9137, second |-> -1], \* 'rmoustache;'
  [name |-> <<114,110,109,105,100,59>>, first |-> 10990, second |-> -1], \* 'rnmid;'
  [name |-> <<114,111,97,110,103,59>>, first |-> 10221, second |-> -1], \* 'roang;'
  [name |-> <<114,111,97,114,114,59>>, first |-> 8702, second |-> -1], \* 'roarr;'
  [name |-> <<114,111,98,114,107,59>>, first |-> 10215, second |-> -1], \* 'robrk;'
  [name |-> <<114,111,112,97,114,59>>, first |-> 10630, second |-> -1], \* 'ropar;'
  [name |-> <<114,111,112,102,59>>, first |-> 120163, second |-> -1], \* 'ropf;'
  [name |-> <<114,111,112,108,117,115,59>>, first |-> 10798, second |-> -1], \* 'roplus;'
  [name |-> <<114,111,116,105,109,101,115,59>>, first |-> 10805, second |-> -1], \* 'rotimes;'
  [name |-> <<114,112,97,114,59>>, first |-> 41, second |-> -1], \* 'rpar;'
  [name |-> <<114,112,97,114,103,116,59>>, first |-> 10644, second |-> -1], \* 'rpargt;'
  [name |-> <<114,112,112,111,108,105,110,116,59>>, first |-> 10770, second |-> -1], \* 'rppolint;'
  [name |-> <<114,114,97,114,114,59>>, first |-> 8649, second |-> -1], \* 'rrarr;'
  [name |-> <<114,115,97,113,117,111,59>>, first |-> 8250, second |-> -1], \* 'rsaquo;'
  [name |-> <<114,115,99,114,59>>, first |-> 120007, second |-> -1], \* 'rscr;'
  [name |-> <<114,115,104,59>>, first |-> 8625, second |-> -1], \* 'rsh;'
  [name |-> <<114,115,113,98,59>>, first |-> 93, second |-> -1], \* 'rsqb;'
  [name |-> <<114,115,113,117,111,59>>, first |-> 8217, second |-> -1], \* 'rsquo;'
  [name |-> <<114,115,113,117,111,114,59>>, first |-> 8217, second |-> -1], \* 'rsquor;'
  [name |-> <<114,116,104,114,101,101,59>>, first |-> 8908, second |-> -1], \* 'rthree;'
  [name |-> <<114,116,105,109,101,115,59>>, first |-> 8906, second |-> -1], \* 'rtimes;'
  [name |-> <<114,116,114,105,59>>, first |-> 9657, second |-> -1], \* 'rtri;'
  [name |-> <<114,116,114,105,101,59>>, first |-> 8885, second |-> -1], \* 'rtrie;'
  [name |-> <<114,116,114,105,102,59>>, first |-> 9656, second |-> -1], \* 'rtrif;'
  [name |-> <<114,116,114,105,108,116,114,105,59>>, first |-> 10702, second |-> -1], \* 'rtriltri;'
  [name |-> <<114,117,108,117,104,97,114,59>>, first |-> 10600, second |-> -1], \* 'ruluhar;'
  [name |-> <<114,120,59>>, first |-> 8478, second |-> -1], \* 'rx;'
  [name |-> <<115,97,99,117,116,101,59>>, first |-> 347, second |-> -1], \* 'sacute;'
  [name |-> <<115,98,113,117,111,59>>, first |-> 8218, second |-> -1], \* 'sbquo;'
  [name |-> <<115,99,59>>, first |-> 8827, second |-> -1], \* 'sc;'
  [name |-> <<115,99,69,59>>, first |-> 10932, second |-> -1], \* 'scE;'
  [name |-> <<115,99,97,112,59>>, first |-> 10936, second |-> -1], \* 'scap;'
  [name |-> <<115,99,97,114,111,110,59>>, first |-> 353, second |-> -1], \* 'scaron;'
  [name |-> <<115,99,99,117,101,59>>, first |-> 8829, second |-> -1], \* 'sccue;'
  [name |-> <<115,99,101,59>>, first |-> 10928, second |-> -1], \* 'sce;'
  [name |-> <<115,99,101,100,105,108,59>>, first |-> 351, second |-> -1], \* 'scedil;'
  [name |-> <<115,99,105,114,99,59>>, first |-> 349, second |-> -1], \* 'scirc;'
  [name |-> <<115,99,110,69,59>>, first |-> 10934, second |-> -1], \* 'scnE;'
  [name |-> <<115,99,110,97,112,59>>, first |-> 10938, second |-> -1], \* 'scnap;'
  [name |-> <<115,99,110,115,105,109,59>>, first |-> 8937, second |-> -1], \* 'scnsim;'
  [name |-> <<115,99,112,111,108,105,110,116,59>>, first |-> 10771, second |-> -1], \* 'scpolint;'
  [name |-> <<115,99,115,105,109,59>>, first |-> 8831, second |-> -1], \* 'scsim;'
  [name |-> <<115,99,121,59>>, first |-> 1089, second |-> -1], \* 'scy;'
  [name |-> <<115,100,111,116,59>>, first |-> 8901, second |-> -1], \* 'sdot;'
  [name |-> <<115,100,111,116,98,59>>, first |-> 8865, second |-> -1], \* 'sdotb;'
  [name |-> <<115,100,111,116,101,59>>, first |-> 10854, second |-> -1], \* 'sdote;'
  [name |-> <<115,101,65,114,114,59>>, first |-> 8664, second |-> -1], \* 'seArr;'
  [name |-> <<115,101,97,114,104,107,59>>, first |-> 10533, second |-> -1], \* 'searhk;'
  [name |-> <<115,101,97,114,114,59>>, first |-> 8600, second |-> -1], \* 'searr;'
  [name |-> <<115,101,97,114,114,111,119,59>>, first |-> 8600, second |-> -1], \* 'searrow;'
  [name |-> <<115,101,99,116,59>>, first |-> 167, second |-> -1], \* 'sect;'
  [name |-> <<115,101,99,116>>, first |-> 167, second |-> -1], \* 'sect'
  [name |-> <<115,101,109,105,59>>, first |-> 59, second |-> -1], \* 'semi;'
  [name |-> <<115,101,115,119,97,114,59>>, first |-> 10537, second |-> -1], \* 'seswar;'
  [name |-> <<115,101,116,109,105,110,117,115,59>>, first |-> 8726, second |-> -1], \* 'setminus;'
  [name |-> <<115,101,116,109,110,59>>, first |-> 8726, second |-> -1], \* 'setmn;'
  [name |-> <<115,101,120,116,59>>, first |-> 10038, second |-> -1], \* 'sext;'
  [name |-> <<115,102,114,59>>, first |-> 120112, second |-> -1], \* 'sfr;'
  [name |-> <<115,102,114,111,119,110,59>>, first |-> 8994, second |-> -1], \* 'sfrown;'
  [name |-> <<115,104,97,114,112,59>>, first |-> 9839, second |-> -1], \* 'sharp;'
  [name |-> <<115,104,99,104,99,121,59>>, first |-> 1097, second |-> -1], \* 'shchcy;'
  [name |-> <<115,104,99,121,59>>, first |-> 1096, second |-> -1], \* 'shcy;'
  [name |-> <<115,104,111,114,116,109,105,100,59>>, first |-> 8739, second |-> -1], \* 'shortmid;'
  [name |-> <<115,104,111,114,116,112,97,114,97,108,108,101,108,59>>, first |-> 8741, second |-> -1], \* 'shortparallel;'
  [name |-> <<115,104,121,59>>, first |-> 173, second |-> -1], \* 'shy;'
  [name |-> <<115,104,121>>, first |-> 173, second |-> -1], \* 'shy'
  [name |-> <<115,105,103,109,97,59>>, first |-> 963, second |-> -1], \* 'sigma;'
  [name |-> <<115,105,103,109,97,102,59>>, first |-> 962, second |-> -1], \* 'sigmaf;'
  [name |-> <<115,105,103,109,97,118,59>>, first |-> 962, second |-> -1], \* 'sigmav;'
  [name |-> <<115,105,109,59>>, first |-> 8764, second |-> -1], \* 'sim;'
  [name |-> <<115,105,109,100,111,116,59>>, first |-> 10858, second |-> -1], \* 'simdot;'
  [name |-> <<115,105,109,101,59>>, first |-> 8771, second |-> -1], \* 'sime;'
  [name |-> <<115,105,109,101,113,59>>, first |-> 8771, second |-> -1], \* 'simeq;'
  [name |-> <<115,105,109,103,59>>, first |-> 10910, second |-> -1], \* 'simg;'
  [name |-> <<115,105,109,103,69,59>>, first |-> 10912, second |-> -1], \* 'simgE;'
  [name |-> <<115,105,109,108,59>>, first |-> 10909, second |-> -1], \* 'siml;'
  [name |-> <<115,105,109,108,69,59>>, first |-> 10911, second |-> -1], \* 'simlE;'
  [name |-> <<115,105,109,110,101,59>>, first |-> 8774, second |-> -1], \* 'simne;'
  [name |-> <<115,105,109,112,108,117,115,59>>, first |-> 10788, second |-> -1], \* 'simplus;'
  [name |-> <<115,105,109,114,97,114,114,59>>, first |-> 10610, second |-> -1], \* 'simrarr;'
  [name |-> <<115,108,97,114,114,59>>, first |-> 8592, second |-> -1], \* 'slarr;'
  [name |-> <<115,109,97,108,108,115,101,116,109,105,110,117,115,59>>, first |-> 8726, second |-> -1], \* 'smallsetminus;'
  [name |-> <<115,109,97,115,104,112,59>>, first |-> 10803, second |-> -1], \* 'smashp;'
  [name |-> <<115,109,101,112,97,114,115,108,59>>, first |-> 10724, second |-> -1], \* 'smeparsl;'
  [name |-> <<115,109,105,100,59>>, first |-> 8739, second |-> -1], \* 'smid;'
  [name |-> <<115,109,105,108,101,59>>, first |-> 8995, second |-> -1], \* 'smile;'
  [name |-> <<115,109,116,59>>, first |-> 10922, second |-> -1], \* 'smt;'
  [name |-> <<115,109,116,101,59>>, first |-> 10924, second |-> -1], \* 'smte;'
  [name |-> <<115,109,116,101,115,59>>, first |-> 10924, second |-> 65024], \* 'smtes;'
  [name |-> <<115,111,102,116,99,121,59>>, first |-> 1100, second |-> -1], \* 'softcy;'
  [name |-> <<115,111,108,59>>, first |-> 47, second |-> -1], \* 'sol;'
  [name |-> <<115,111,108,98,59>>, first |-> 10692, second |-> -1], \* 'solb;'
  [name |-> <<115,111,108,98,97,114,59>>, first |-> 9023, second |-> -1], \* 'solbar;'
  [name |-> <<115,111,112,102,59>>, first |-> 120164, second |-> -1], \* 'sopf;'
  [name |-> <<115,112,97,100,101,115,59>>, first |-> 9824, second |-> -1], \* 'spades;'
  [name |-> <<115,112,97,100,101,115,117,105,116,59>>, first |-> 9824, second |-> -1], \* 'spadesuit;'
  [name |-> <<115,112,97,114,59>>, first |-> 8741, second |-> -1], \* 'spar;'
  [name |-> <<115,113,99,97,112,59>>, first |-> 8851, second |-> -1], \* 'sqcap;'
  [name |-> <<115,113,99,97,112,115,59>>, first |-> 8851, second |-> 65024], \* 'sqcaps;'
  [name |-> <<115,113,99,117,112,59>>, first |-> 8852, second |-> -1], \* 'sqcup;'
  [name |-> <<115,113,99,117,112,115,59>>, first |-> 8852, second |-> 65024], \* 'sqcups;'
  [name |-> <<115,113,115,117,98,59>>, first |-> 8847, second |-> -1], \* 'sqsub;'
  [name |-> <<115,113,115,117,98,101,59>>, first |-> 8849, second |-> -1], \* 'sqsube;'
  [name |-> <<115,113,115,117,98,115,101,116,59>>, first |-> 8847, second |-> -1], \* 'sqsubset;'
  [name |-> <<115,113,115,117,98,115,101,116,101,113,59>>, first |-> 8849, second |-> -1], \* 'sqsubseteq;'
  [name |-> <<115,113,115,117,112,59>>, first |-> 8848, second |-> -1], \* 'sqsup;'
  [name |-> <<115,113,115,117,112,101,59>>, first |-> 8850, second |-> -1], \* 'sqsupe;'
  [name |-> <<115,113,115,117,112,115,101,116,59>>, first |-> 8848, second |-> -1], \* 'sqsupset;'
  [name |-> <<115,113,115,117,112,115,101,116,101,113,59>>, first |-> 8850, second |-> -1], \* 'sqsupseteq;'
  [name |-> <<115,113,117,59>>, first |-> 9633, second |-> -1], \* 'squ;'
  [name |-> <<115,113,117,97,114,101,59>>, first |-> 9633, second |-> -1], \* 'square;'
  [name |-> <<115,113,117,97,114,102,59>>, first |-> 9642, second |-> -1], \* 'squarf;'
  [name |-> <<115,113,117,102,59>>, first |-> 9642, second |-> -1], \* 'squf;'
  [name |-> <<115,114,97,114,114,59>>, first |-> 8594, second |-> -1], \* 'srarr;'
  [name |-> <<115,115,99,114,59>>, first |-> 120008, second |-> -1], \* 'sscr;'
  [name |-> <<115,115,101,116,109,110,59>>, first |-> 8726, second |-> -1], \* 'ssetmn;'
  [name |-> <<115,115,109,105,108,101,59>>, first |-> 8995, second |-> -1], \* 'ssmile;'
  [name |-> <<115,115,116,97,114,102,59>>, first |-> 8902, second |-> -1], \* 'sstarf;'
  [name |-> <<115,116,97,114,59>>, first |-> 9734, second |-> -1], \* 'star;'
  [name |-> <<115,116,97,114,102,59>>, first |-> 9733, second |-> -1], \* 'starf;'
  [name |-> <<115,116,114,97,105,103,104,116,101,112,115,105,108,111,110,59>>, first |-> 1013, second |-> -1], \* 'straightepsilon;'
  [name |-> <<115,116,114,97,105,103,104,116,112,104,105,59>>, first |-> 981, second |-> -1], \* 'straightphi;'
  [name |-> <<115,116,114,110,115,59>>, first |-> 175, second |-> -1], \* 'strns;'
  [name |-> <<115,117,98,59>>, first |-> 8834, second |-> -1], \* 'sub;'
  [name |-> <<115,117,98,69,59>>, first |-> 10949, second |-> -1], \* 'subE;'
  [name |-> <<115,117,98,100,111,116,59>>, first |-> 10941, second |-> -1], \* 'subdot;'
  [name |-> <<115,117,98,101,59>>, first |-> 8838, second |-> -1], \* 'sube;'
  [name |-> <<115,117,98,101,100,111,116,59>>, first |-> 10947, second |-> -1], \* 'subedot;'
  [name |-> <<115,117,98,109,117,108,116,59>>, first |-> 10945, second |-> -1], \* 'submult;'
  [name |-> <<115,117,98,110,69,59>>, first |-> 10955, second |-> -1], \* 'subnE;'
  [name |-> <<115,117,98,110,101,59>>, first |-> 8842, second |-> -1], \* 'subne;'
  [name |-> <<115,117,98,112,108,117,115,59>>, first |-> 10943, second |-> -1], \* 'subplus;'
  [name |-> <<115,117,98,114,97,114,114,59>>, first |-> 10617, second |-> -1], \* 'subrarr;'
  [name |-> <<115,117,98,115,101,116,59>>, first |-> 8834, second |-> -1], \* 'subset;'
  [name |-> <<115,117,98,115,101,116,101,113,59>>, first |-> 8838, second |-> -1], \* 'subseteq;'
  [name |-> <<115,117,98,115,101,116,101,113,113,59>>, first |-> 10949, second |-> -1], \* 'subseteqq;'
  [name |-> <<115,117,98,115,101,116,110,101,113,59>>, first |-> 8842, second |-> -1], \* 'subsetneq;'
  [name |-> <<115,117,98,115,101,116,110,101,113,113,59>>, first |-> 10955, second |-> -1], \* 'subsetneqq;'
  [name |-> <<115,117,98,115,105,109,59>>, first |-> 10951, second |-> -1], \* 'subsim;'
  [name |-> <<115,117,98,115,117,98,59>>, first |-> 10965, second |-> -1], \* 'subsub;'
  [name |-> <<115,117,98,115,117,112,59>>, first |-> 10963, second |-> -1], \* 'subsup;'
  [name |-> <<115,117,99,99,59>>, first |-> 8827, second |-> -1], \* 'succ;'
  [name |-> <<115,117,99,99,97,112,112,114,111,120,59>>, first |-> 10936, second |-> -1], \* 'succapprox;'
  [name |-> <<115,117,99,99,99,117,114,108,121,101,113,59>>, first |-> 8829, second |-> -1], \* 'succcurlyeq;'
  [name |-> <<115,117,99,99,101,113,59>>, first |-> 10928, second |-> -1], \* 'succeq;'
  [name |-> <<115,117,99,99,110,97,112,112,114,111,120,59>>, first |-> 10938, second |-> -1], \* 'succnapprox;'
  [name |-> <<115,117,99,99,110,101,113,113,59>>, first |-> 10934, second |-> -1], \* 'succneqq;'
  [name |-> <<115,117,99,99,110,115,105,109,59>>, first |-> 8937, second |-> -1], \* 'succnsim;'
  [name |-> <<115,117,99,99,115,105,109,59>>, first |-> 8831, second |-> -1], \* 'succsim;'
  [name |-> <<115,117,109,59>>, first |-> 8721, second |-> -1], \* 'sum;'
  [name |-> <<115,117,110,103,59>>, first |-> 9834, second |-> -1], \* 'sung;'
  [name |-> <<115,117,112,49,59>>, first |-> 185, second |-> -1], \* 'sup1;'
  [name |-> <<115,117,112,49>>, first |-> 185, second |-> -1], \* 'sup1'
  [name |-> <<115,117,112,50,59>>, first |-> 178, second |-> -1], \* 'sup2;'
  [name |-> <<115,117,112,50>>, first |-> 178, second |-> -1], \* 'sup2'
  [name |-> <<115,117,112,51,59>>, first |-> 179, second |-> -1], \* 'sup3;'
  [name |-> <<115,117,112,51>>, first |-> 179, second |-> -1], \* 'sup3'
  [name |-> <<115,117,112,59>>, first |-> 8835, second |-> -1], \* 'sup;'
  [name |-> <<115,117,112,69,59>>, first |-> 10950, second |-> -1], \* 'supE;'
  [name |-> <<115,117,112,100,111,116,59>>, first |-> 10942, second |-> -1], \* 'supdot;'
  [name |-> <<115,117,112,100,115,117,98,59>>, first |-> 10968, second |-> -1], \* 'supdsub;'
  [name |-> <<115,117,112,101,59>>, first |-> 8839, second |-> -1], \* 'supe;'
  [name |-> <<115,117,112,101,100,111,116,59>>, first |-> 10948, second |-> -1], \* 'supedot;'
  [name |-> <<115,117,112,104,115,111,108,59>>, first |-> 10185, second |-> -1], \* 'suphsol;'
  [name |-> <<115,117,112,104,115,117,98,59>>, first |-> 10967, second |-> -1], \* 'suphsub;'
  [name |-> <<115,117,112,108,97,114,114,59>>, first |-> 10619, second |-> -1], \* 'suplarr;'
  [name |-> <<115,117,112,109,117,108,116,59>>, first |-> 10946, second |-> -1], \* 'supmult;'
  [name |-> <<115,117,112,110,69,59>>, first |-> 10956, second |-> -1], \* 'supnE;'
  [name |-> <<115,117,112,110,101,59>>, first |-> 8843, second |-> -1], \* 'supne;'
  [name |-> <<115,117,112,112,108,117,115,59>>, first |-> 10944, second |-> -1], \* 'supplus;'
  [name |-> <<115,117,112,115,101,116,59>>, first |-> 8835, second |-> -1], \* 'supset;'
  [name |-> <<115,117,112,115,101,116,101,113,59>>, first |-> 8839, second |-> -1], \* 'supseteq;'
  [name |-> <<115,117,112,115,101,116,101,113,113,59>>, first |-> 10950, second |-> -1], \* 'supseteqq;'
  [name |-> <<115,117,112,115,101,116,110,101,113,59>>, first |-> 8843, second |-> -1], \* 'supsetneq;'
  [name |-> <<115,117,112,115,101,116,110,101,113,113,59>>, first |-> 10956, second |-> -1], \* 'supsetneqq;'
  [name |-> <<115,117,112,115,105,109,59>>, first |-> 10952, second |-> -1], \* 'supsim;'
  [name |-> <<115,117,112,115,117,98,59>>, first |-> 10964, second |-> -1], \* 'supsub;'
  [name |-> <<115,117,112,115,117,112,59>>, first |-> 10966, second |-> -1], \* 'supsup;'
  [name |-> <<115,119,65,114,114,59>>, first |-> 8665, second |-> -1], \* 'swArr;'
  [name |-> <<115,119,97,114,104,107,59>>, first |-> 10534, second |-> -1], \* 'swarhk;'
  [name |-> <<115,119,97,114,114,59>>, first |-> 8601, second |-> -1], \* 'swarr;'
  [name |-> <<115,119,97,114,114,111,119,59>>, first |-> 8601, second |-> -1], \* 'swarrow;'
  [name |-> <<115,119,110,119,97,114,59>>, first |-> 10538, second |-> -1], \* 'swnwar;'
  [name |-> <<115,122,108,105,103,59>>, first |-> 223, second |-> -1], \* 'szlig;'
  [name |-> <<115,122,108,105,103>>, first |-> 223, second |-> -1], \* 'szlig'
  [name |-> <<116,97,114,103,101,116,59>>, first |-> 8982, second |-> -1], \* 'target;'
  [name |-> <<116,97,117,59>>, first |-> 964, second |-> -1], \* 'tau;'
  [name |-> <<116,98,114,107,59>>, first |-> 9140, second |-> -1], \* 'tbrk;'
  [name |-> <<116,99,97,114,111,110,59>>, first |-> 357, second |-> -1], \* 'tcaron;'
  [name |-> <<116,99,101,100,105,108,59>>, first |-> 355, second |-> -1], \* 'tcedil;'
  [name |-> <<116,99,121,59>>, first |-> 1090, second |-> -1], \* 'tcy;'
  [name |-> <<116,100,111,116,59>>, first |-> 8411, second |-> -1], \* 'tdot;'
  [name |-> <<116,101,108,114,101,99,59>>, first |-> 8981, second |-> -1], \* 'telrec;'
  [name |-> <<116,102,114,59>>, first |-> 120113, second |-> -1], \* 'tfr;'
  [name |-> <<116,104,101,114,101,52,59>>, first |-> 8756, second |-> -1], \* 'there4;'
  [name |-> <<116,104,101,114,101,102,111,114,101,59>>, first |-> 8756, second |-> -1], \* 'therefore;'
  [name |-> <<116,104,101,116,97,59>>, first |-> 952, second |-> -1], \* 'theta;'
  [name |-> <<116,104,101,116,97,115,121,109,59>>, first |-> 977, second |-> -1], \* 'thetasym;'
  [name |-> <<116,104,101,116,97,118,59>>, first |-> 977, second |-> -1], \* 'thetav;'
  [name |-> <<116,104,105,99,107,97,112,112,114,111,120,59>>, first |-> 8776, second |-> -1], \* 'thickapprox;'
  [name |-> <<116,104,105,99,107,115,105,109,59>>, first |-> 8764, second |-> -1], \* 'thicksim;'
  [name |-> <<116,104,105,110,115,112,59>>, first |-> 8201, second |-> -1], \* 'thinsp;'
  [name |-> <<116,104,107,97,112,59>>, first |-> 8776, second |-> -1], \* 'thkap;'
  [name |-> <<116,104,107,115,105,109,59>>, first |-> 8764, second |-> -1], \* 'thksim;'
  [name |-> <<116,104,111,114,110,59>>, first |-> 254, second |-> -1], \* 'thorn;'
  [name |-> <<116,104,111,114,110>>, first |-> 254, second |-> -1], \* 'thorn'
  [name |-> <<116,105,108,100,101,59>>, first |-> 732, second |-> -1], \* 'tilde;'
  [name |-> <<116,105,109,101,115,59>>, first |-> 215, second |-> -1], \* 'times;'
  [name |-> <<116,105,109,101,115>>, first |-> 215, second |-> -1], \* 'times'
  [name |-> <<116,105,109,101,115,98,59>>, first |-> 8864, second |-> -1], \* 'timesb;'
  [name |-> <<116,105,109,101,115,98,97,114,59>>, first |-> 10801, second |-> -1], \* 'timesbar;'
  [name |-> <<116,105,109,101,115,100,59>>, first |-> 10800, second |-> -1], \* 'timesd;'
  [name |-> <<116,105,110,116,59>>, first |-> 8749, second |-> -1], \* 'tint;'
  [name |-> <<116,111,101,97,59>>, first |-> 10536, second |-> -1], \* 'toea;'
  [name |-> <<116,111,112,59>>, first |-> 8868, second |-> -1], \* 'top;'
  [name |-> <<116,111,112,98,111,116,59>>, first |-> 9014, second |-> -1], \* 'topbot;'
  [name |-> <<116,111,112,99,105,114,59>>, first |-> 10993, second |-> -1], \* 'topcir;'
  [name |-> <<116,111,112,102,59>>, first |-> 120165, second |-> -1], \* 'topf;'
  [name |-> <<116,111,112,102,111,114,107,59>>, first |-> 10970, second |-> -1], \* 'topfork;'
  [name |-> <<116,111,115,97,59>>, first |-> 10537, second |-> -1], \* 'tosa;'
  [name |-> <<116,112,114,105,109,101,59>>, first |-> 8244, second |-> -1], \* 'tprime;'
  [name |-> <<116,114,97,100,101,59>>, first |-> 8482, second |-> -1], \* 'trade;'
  [name |-> <<116,114,105,97,110,103,108,101,59>>, first |-> 9653, second |-> -1], \* 'triangle;'
  [name |-> <<116,114,105,97,110,103,108,101,100,111,119,110,59>>, first |-> 9663, second |-> -1], \* 'triangledown;'
  [name |-> <<116,114,105,97,110,103,108,101,108,101,102,116,59>>, first |-> 9667, second |-> -1], \* 'triangleleft;'
  [name |-> <<116,114,105,97,110,103,108,101,108,101,102,116,101,113,59>>, first |-> 8884, second |-> -1], \* 'trianglelefteq;'
  [name |-> <<116,114,105,97,110,103,108,101,113,59>>, first |-> 8796, second |-> -1], \* 'triangleq;'
  [name |-> <<116,114,105,97,110,103,108,101,114,105,103,104,116,59>>, first |-> 9657, second |-> -1], \* 'triangleright;'
  [name |-> <<116,114,105,97,110,103,108,101,114,105,103,104,116,101,113,59>>, first |-> 8885, second |-> -1], \* 'trianglerighteq;'
  [name |-> <<116,114,105,100,111,116,59>>, first |-> 9708, second |-> -1], \* 'tridot;'
  [name |-> <<116,114,105,101,59>>, first |-> 8796, second |-> -1], \* 'trie;'
  [name |-> <<116,114,105,109,105,110,117,115,59>>, first |-> 10810, second |-> -1], \* 'triminus;'
  [name |-> <<116,114,105,112,108,117,115,59>>, first |-> 10809, second |-> -1], \* 'triplus;'
  [name |-> <<116,114,105,115,98,59>>, first |-> 10701, second |-> -1], \* 'trisb;'
  [name |-> <<116,114,105,116,105,109,101,59>>, first |-> 10811, second |-> -1], \* 'tritime;'
  [name |-> <<116,114,112,101,122,105,117,109,59>>, first |-> 9186, second |-> -1], \* 'trpezium;'
  [name |-> <<116,115,99,114,59>>, first |-> 120009, second |-> -1], \* 'tscr;'
  [name |-> <<116,115,99,121,59>>, first |-> 1094, second |-> -1], \* 'tscy;'
  [name |-> <<116,115,104,99,121,59>>, first |-> 1115, second |-> -1], \* 'tshcy;'
  [name |-> <<116,115,116,114,111,107,59>>, first |-> 359, second |-> -1], \* 'tstrok;'
  [name |-> <<116,119,105,120,116,59>>, first |-> 8812, second |-> -1], \* 'twixt;'
  [name |-> <<116,119,111,104,101,97,100,108,101,102,116,97,114,114,111,119,59>>, first |-> 8606, second |-> -1], \* 'twoheadleftarrow;'
  [name |-> <<116,119,111,104,101,97,100,114,105,103,104,116,97,114,114,111,119,59>>, first |-> 8608, second |-> -1], \* 'twoheadrightarrow;'
  [name |-> <<117,65,114,114,59>>, first |-> 8657, second |-> -1], \* 'uArr;'
  [name |-> <<117,72,97,114,59>>, first |-> 10595, second |-> -1], \* 'uHar;'
  [name |-> <<117,97,99,117,116,101,59>>, first |-> 250, second |-> -1], \* 'uacute;'
  [name |-> <<117,97,99,117,116,101>>, first |-> 250, second |-> -1], \* 'uacute'
  [name |-> <<117,97,114,114,59>>, first |-> 8593, second |-> -1], \* 'uarr;'
  [name |-> <<117,98,114,99,121,59>>, first |-> 1118, second |-> -1], \* 'ubrcy;'
  [name |-> <<117,98,114,101,118,101,59>>, first |-> 365, second |-> -1], \* 'ubreve;'
  [name |-> <<117,99,105,114,99,59>>, first |-> 251, second |-> -1], \* 'ucirc;'
  [name |-> <<117,99,105,114,99>>, first |-> 251, second |-> -1], \* 'ucirc'
  [name |-> <<117,99,121,59>>, first |-> 1091, second |-> -1], \* 'ucy;'
  [name |-> <<117,100,97,114,114,59>>, first |-> 8645, second |-> -1], \* 'udarr;'
  [name |-> <<117,100,98,108,97,99,59>>, first |-> 369, second |-> -1], \* 'udblac;'
  [name |-> <<117,100,104,97,114,59>>, first |-> 10606, second |-> -1], \* 'udhar;'
  [name |-> <<117,102,105,115,104,116,59>>, first |-> 10622, second |-> -1], \* 'ufisht;'
  [name |-> <<117,102,114,59>>, first |-> 120114, second |-> -1], \* 'ufr;'
  [name |-> <<117,103,114,97,118,101,59>>, first |-> 249, second |-> -1], \* 'ugrave;'
  [name |-> <<117,103,114,97,118,101>>, first |-> 249, second |-> -1], \* 'ugrave'
  [name |-> <<117,104,97,114,108,59>>, first |-> 8639, second |-> -1], \* 'uharl;'
  [name |-> <<117,104,97,114,114,59>>, first |-> 8638, second |-> -1], \* 'uharr;'
  [name |-> <<117,104,98,108,107,59>>, first |-> 9600, second |-> -1], \* 'uhblk;'
  [name |-> <<117,108,99,111,114,110,59>>, first |-> 8988, second |-> -1], \* 'ulcorn;'
  [name |-> <<117,108,99,111,114,110,101,114,59>>, first |-> 8988, second |-> -1], \* 'ulcorner;'
  [name |-> <<117,108,99,114,111,112,59>>, first |-> 8975, second |-> -1], \* 'ulcrop;'
  [name |-> <<117,108,116,114,105,59>>, first |-> 9720, second |-> -1], \* 'ultri;'
  [name |-> <<117,109,97,99,114,59>>, first |-> 363, second |-> -1], \* 'umacr;'
  [name |-> <<117,109,108,59>>, first |-> 168, second |-> -1], \* 'uml;'
  [name |-> <<117,109,108>>, first |-> 168, second |-> -1], \* 'uml'
  [name |-> <<117,111,103,111,110,59>>, first |-> 371, second |-> -1], \* 'uogon;'
  [name |-> <<117,111,112,102,59>>, first |-> 120166, second |-> -1], \* 'uopf;'
  [name |-> <<117,112,97,114,114,111,119,59>>, first |-> 8593, second |-> -1], \* 'uparrow;'
  [name |-> <<117,112,100,111,119,110,97,114,114,111,119,59>>, first |-> 8597, second |-> -1], \* 'updownarrow;'
  [name |-> <<117,112,104,97,114,112,111,111,110,108,101,102,116,59>>, first |-> 8639, second |-> -1], \* 'upharpoonleft;'
  [name |-> <<117,112,104,97,114,112,111,111,110,114,105,103,104,116,59>>, first |-> 8638, second |-> -1], \* 'upharpoonright;'
  [name |-> <<117,112,108,117,115,59>>, first |-> 8846, second |-> -1], \* 'uplus;'
  [name |-> <<117,112,115,105,59>>, first |-> 965, second |-> -1], \* 'upsi;'
  [name |-> <<117,112,115,105,104,59>>, first |-> 978, second |-> -1], \* 'upsih;'
  [name |-> <<117,112,115,105,108,111,110,59>>, first |-> 965, second |-> -1], \* 'upsilon;'
  [name |-> <<117,112,117,112,97,114,114,111,119,115,59>>, first |-> 8648, second |-> -1], \* 'upuparrows;'
  [name |-> <<117,114,99,111,114,110,59>>, first |-> 8989, second |-> -1], \* 'urcorn;'
  [name |-> <<117,114,99,111,114,110,101,114,59>>, first |-> 8989, second |-> -1], \* 'urcorner;'
  [name |-> <<117,114,99,114,111,112,59>>, first |-> 8974, second |-> -1], \* 'urcrop;'
  [name |-> <<117,114,105,110,103,59>>, first |-> 367, second |-> -1], \* 'uring;'
  [name |-> <<117,114,116,114,105,59>>, first |-> 9721, second |-> -1], \* 'urtri;'
  [name |-> <<117,115,99,114,59>>, first |-> 120010, second |-> -1], \* 'uscr;'
  [name |-> <<117,116,100,111,116,59>>, first |-> 8944, second |-> -1], \* 'utdot;'
  [name |-> <<117,116,105,108,100,101,59>>, first |-> 361, second |-> -1], \* 'utilde;'
  [name |-> <<117,116,114,105,59>>, first |-> 9653, second |-> -1], \* 'utri;'
  [name |-> <<117,116,114,105,102,59>>, first |-> 9652, second |-> -1], \* 'utrif;'
  [name |-> <<117,117,97,114,114,59>>, first |-> 8648, second |-> -1], \* 'uuarr;'
  [name |-> <<117,117,109,108,59>>, first |-> 252, second |-> -1], \* 'uuml;'
  [name |-> <<117,117,109,108>>, first |-> 252, second |-> -1], \* 'uuml'
  [name |-> <<117,119,97,110,103,108,101,59>>, first |-> 10663, second |-> -1], \* 'uwangle;'
  [name |-> <<118,65,114,114,59>>, first |-> 8661, second |-> -1], \* 'vArr;'
  [name |-> <<118,66,97,114,59>>, first |-> 10984, second |-> -1], \* 'vBar;'
  [name |-> <<118,66,97,114,118,59>>, first |-> 10985, second |-> -1], \* 'vBarv;'
  [name |-> <<118,68,97,115,104,59>>, first |-> 8872, second |-> -1], \* 'vDash;'
  [name |-> <<118,97,110,103,114,116,59>>, first |-> 10652, second |-> -1], \* 'vangrt;'
  [name |-> <<118,97,114,101,112,115,105,108,111,110,59>>, first |-> 1013, second |-> -1], \* 'varepsilon;'
  [name |-> <<118,97,114,107,97,112,112,97,59>>, first |-> 1008, second |-> -1], \* 'varkappa;'
  [name |-> <<118,97,114,110,111,116,104,105,110,103,59>>, first |-> 8709, second |-> -1], \* 'varnothing;'
  [name |-> <<118,97,114,112,104,105,59>>, first |-> 981, second |-> -1], \* 'varphi;'
  [name |-> <<118,97,114,112,105,59>>, first |-> 982, second |-> -1], \* 'varpi;'
  [name |-> <<118,97,114,112,114,111,112,116,111,59>>, first |-> 8733, second |-> -1], \* 'varpropto;'
  [name |-> <<118,97,114,114,59>>, first |-> 8597, second |-> -1], \* 'varr;'
  [name |-> <<118,97,114,114,104,111,59>>, first |-> 1009, second |-> -1], \* 'varrho;'
  [name |-> <<118,97,114,115,105,103,109,97,59>>, first |-> 962, second |-> -1], \* 'varsigma;'
  [name |-> <<118,97,114,115,117,98,115,101,116,110,101,113,59>>, first |-> 8842, second |-> 65024], \* 'varsubsetneq;'
  [name |-> <<118,97,114,115,117,98,115,101,116,110,101,113,113,59>>, first |-> 10955, second |-> 65024], \* 'varsubsetneqq;'
  [name |-> <<118,97,114,115,117,112,115,101,116,110,101,113,59>>, first |-> 8843, second |-> 65024], \* 'varsupsetneq;'
  [name |-> <<118,97,114,115,117,112,115,101,116,110,101,113,113,59>>, first |-> 10956, second |-> 65024], \* 'varsupsetneqq;'
  [name |-> <<118,97,114,116,104,101,116,97,59>>, first |-> 977, second |-> -1], \* 'vartheta;'
  [name |-> <<118,97,114,116,114,105,97,110,103,108,101,108,101,102,116,59>>, first |-> 8882, second |-> -1], \* 'vartriangleleft;'
  [name |-> <<118,97,114,116,114,105,97,110,103,108,101,114,105,103,104,116,59>>, first |-> 8883, second |-> -1], \* 'vartriangleright;'
  [name |-> <<118,99,121,59>>, first |-> 1074, second |-> -1], \* 'vcy;'
  [name |-> <<118,100,97,115,104,59>>, first |-> 8866, second |-> -1], \* 'vdash;'
  [name |-> <<118,101,101,59>>, first |-> 8744, second |-> -1], \* 'vee;'
  [name |-> <<118,101,101,98,97,114,59>>, first |-> 8891, second |-> -1], \* 'veebar;'
  [name |-> <<118,101,101,101,113,59>>, first |-> 8794, second |-> -1], \* 'veeeq;'
  [name |-> <<118,101,108,108,105,112,59>>, first |-> 8942, second |-> -1], \* 'vellip;'
  [name |-> <<118,101,114,98,97,114,59>>, first |-> 124, second |-> -1], \* 'verbar;'
  [name |-> <<118,101,114,116,59>>, first |-> 124, second |-> -1], \* 'vert;'
  [name |-> <<118,102,114,59>>, first |-> 120115, second |-> -1], \* 'vfr;'
  [name |-> <<118,108,116,114,105,59>>, first |-> 8882, second |-> -1], \* 'vltri;'
  [name |-> <<118,110,115,117,98,59>>, first |-> 8834, second |-> 8402], \* 'vnsub;'
  [name |-> <<118,110,115,117,112,59>>, first |-> 8835, second |-> 8402], \* 'vnsup;'
  [name |-> <<118,111,112,102,59>>, first |-> 120167, second |-> -1], \* 'vopf;'
  [name |-> <<118,112,114,111,112,59>>, first |-> 8733, second |-> -1], \* 'vprop;'
  [name |-> <<118,114,116,114,105,59>>, first |-> 8883, second |-> -1], \* 'vrtri;'
  [name |-> <<118,115,99,114,59>>, first |-> 120011, second |-> -1], \* 'vscr;'
  [name |-> <<118,115,117,98,110,69,59>>, first |-> 10955, second |-> 65024], \* 'vsubnE;'
  [name |-> <<118,115,117,98,110,101,59>>, first |-> 8842, second |-> 65024], \* 'vsubne;'
  [name |-> <<118,115,117,112,110,69,59>>, first |-> 10956, second |-> 65024], \* 'vsupnE;'
  [name |-> <<118,115,117,112,110,101,59>>, first |-> 8843, second |-> 65024], \* 'vsupne;'
  [name |-> <<118,122,105,103,122,97,103,59>>, first |-> 10650, second |-> -1], \* 'vzigzag;'
  [name |-> <<119,99,105,114,99,59>>, first |-> 373, second |-> -1], \* 'wcirc;'
  [name |-> <<119,101,100,98,97,114,59>>, first |-> 10847, second |-> -1], \* 'wedbar;'
  [name |-> <<119,101,100,103,101,59>>, first |-> 8743, second |-> -1], \* 'wedge;'
  [name |-> <<119,101,100,103,101,113,59>>, first |-> 8793, second |-> -1], \* 'wedgeq;'
  [name |-> <<119,101,105,101,114,112,59>>, first |-> 8472, second |-> -1], \* 'weierp;'
  [name |-> <<119,102,114,59>>, first |-> 120116, second |-> -1], \* 'wfr;'
  [name |-> <<119,111,112,102,59>>, first |-> 120168, second |-> -1], \* 'wopf;'
  [name |-> <<119,112,59>>, first |-> 8472, second |-> -1], \* 'wp;'
  [name |-> <<119,114,59>>, first |-> 8768, second |-> -1], \* 'wr;'
  [name |-> <<119,114,101,97,116,104,59>>, first |-> 8768, second |-> -1], \* 'wreath;'
  [name |-> <<119,115,99,114,59>>, first |-> 120012, second |-> -1], \* 'wscr;'
  [name |-> <<120,99,97,112,59>>, first |-> 8898, second |-> -1], \* 'xcap;'
  [name |-> <<120,99,105,114,99,59>>, first |-> 9711, second |-> -1], \* 'xcirc;'
  [name |-> <<120,99,117,112,59>>, first |-> 8899, second |-> -1], \* 'xcup;'
  [name |-> <<120,100,116,114,105,59>>, first |-> 9661, second |-> -1], \* 'xdtri;'
  [name |-> <<120,102,114,59>>, first |-> 120117, second |-> -1], \* 'xfr;'
  [name |-> <<120,104,65,114,114,59>>, first |-> 10234, second |-> -1], \* 'xhArr;'
  [name |-> <<120,104,97,114,114,59>>, first |-> 10231, second |-> -1], \* 'xharr;'
  [name |-> <<120,105,59>>, first |-> 958, second |-> -1], \* 'xi;'
  [name |-> <<120,108,65,114,114,59>>, first |-> 10232, second |-> -1], \* 'xlArr;'
  [name |-> <<120,108,97,114,114,59>>, first |-> 10229, second |-> -1], \* 'xlarr;'
  [name |-> <<120,109,97,112,59>>, first |-> 10236, second |-> -1], \* 'xmap;'
  [name |-> <<120,110,105,115,59>>, first |-> 8955, second |-> -1], \* 'xnis;'
  [name |-> <<120,111,100,111,116,59>>, first |-> 10752, second |-> -1], \* 'xodot;'
  [name |-> <<120,111,112,102,59>>, first |-> 120169, second |-> -1], \* 'xopf;'
  [name |-> <<120,111,112,108,117,115,59>>, first |-> 10753, second |-> -1], \* 'xoplus;'
  [name |-> <<120,111,116,105,109,101,59>>, first |-> 10754, second |-> -1], \* 'xotime;'
  [name |-> <<120,114,65,114,114,59>>, first |-> 10233, second |-> -1], \* 'xrArr;'
  [name |-> <<120,114,97,114,114,59>>, first |-> 10230, second |-> -1], \* 'xrarr;'
  [name |-> <<120,115,99,114,59>>, first |-> 120013, second |-> -1], \* 'xscr;'
  [name |-> <<120,115,113,99,117,112,59>>, first |-> 10758, second |-> -1], \* 'xsqcup;'
  [name |-> <<120,117,112,108,117,115,59>>, first |-> 10756, second |-> -1], \* 'xuplus;'
  [name |-> <<120,117,116,114,105,59>>, first |-> 9651, second |-> -1], \* 'xutri;'
  [name |-> <<120,118,101,101,59>>, first |-> 8897, second |-> -1], \* 'xvee;'
  [name |-> <<120,119,101,100,103,101,59>>, first |-> 8896, second |-> -1], \* 'xwedge;'
  [name |-> <<121,97,99,117,116,101,59>>, first |-> 253, second |-> -1], \* 'yacute;'
  [name |-> <<121,97,99,117,116,101>>, first |-> 253, second |-> -1], \* 'yacute'
  [name |-> <<121,97,99,121,59>>, first |-> 1103, second |-> -1], \* 'yacy;'
  [name |-> <<121,99,105,114,99,59>>, first |-> 375, second |-> -1], \* 'ycirc;'
  [name |-> <<121,99,121,59>>, first |-> 1099, second |-> -1], \* 'ycy;'
  [name |-> <<121,101,110,59>>, first |-> 165, second |-> -1], \* 'yen;'
  [name |-> <<121,101,110>>, first |-> 165, second |-> -1], \* 'yen'
  [name |-> <<121,102,114,59>>, first |-> 120118, second |-> -1], \* 'yfr;'
  [name |-> <<121,105,99,121,59>>, first |-> 1111, second |-> -1], \* 'yicy;'
  [name |-> <<121,111,112,102,59>>, first |-> 120170, second |-> -1], \* 'yopf;'
  [name |-> <<121,115,99,114,59>>, first |-> 120014, second |-> -1], \* 'yscr;'
  [name |-> <<121,117,99,121,59>>, first |-> 1102, second |-> -1], \* 'yucy;'
  [name |-> <<121,117,109,108,59>>, first |-> 255, second |-> -1], \* 'yuml;'
  [name |-> <<121,117,109,108>>, first |-> 255, second |-> -1], \* 'yuml'
  [name |-> <<122,97,99,117,116,101,59>>, first |-> 378, second |-> -1], \* 'zacute;'
  [name |-> <<122,99,97,114,111,110,59>>, first |-> 382, second |-> -1], \* 'zcaron;'
  [name |-> <<122,99,121,59>>, first |-> 1079, second |-> -1], \* 'zcy;'
  [name |-> <<122,100,111,116,59>>, first |-> 380, second |-> -1], \* 'zdot;'
  [name |-> <<122,101,101,116,114,102,59>>, first |-> 8488, second |-> -1], \* 'zeetrf;'
  [name |-> <<122,101,116,97,59>>, first |-> 950, second |-> -1], \* 'zeta;'
  [name |-> <<122,102,114,59>>, first |-> 120119, second |-> -1], \* 'zfr;'
  [name |-> <<122,104,99,121,59>>, first |-> 1078, second |-> -1], \* 'zhcy;'
  [name |-> <<122,105,103,114,97,114,114,59>>, first |-> 8669, second |-> -1], \* 'zigrarr;'
  [name |-> <<122,111,112,102,59>>, first |-> 120171, second |-> -1], \* 'zopf;'
  [name |-> <<122,115,99,114,59>>, first |-> 120015, second |-> -1], \* 'zscr;'
  [name |-> <<122,119,106,59>>, first |-> 8205, second |-> -1], \* 'zwj;'
  [name |-> <<122,119,110,106,59>>, first |-> 8204, second |-> -1], \* 'zwnj;'
  [name |-> <<>>, first |-> -1, second |-> -1] \* ''
  >>

named_char_ref_repeated(i) ==
  IF i = 3 THEN kNamedEntities[2] ELSE kNamedEntities[i]

\* kNamedEntities[i - 1]: the entries are numbered from 1 here.
NamedCharRef(i) == kNamedEntities[i]

\* The entries before the terminator.
NamedCharRefs == 1..(Len(kNamedEntities) - 1)

RECURSIVE ByteOrderFrom(_, _, _)
\* The order of two names as byte strings, from their k-th bytes on: -1, 0
\* or 1 as the first is smaller than, equal to or greater than the second.
ByteOrderFrom(a, b, k) ==
  IF k > Len(a) /\ k > Len(b) THEN 0
  ELSE IF k > Len(a) THEN -1
  ELSE IF k > Len(b) THEN 1
  ELSE IF a[k] < b[k] THEN -1
  ELSE IF a[k] > b[k] THEN 1
  ELSE ByteOrderFrom(a, b, k + 1)

ByteOrder(a, b) == ByteOrderFrom(a, b, 1)

EndsInSemicolon(name) == Len(name) > 0 /\ name[Len(name)] = CH_SEMI

\* The entries after the i-th that are of its kind: with `;` or without.
LaterOfKind(i) ==
  {j \in NamedCharRefs :
     /\ j > i
     /\ EndsInSemicolon(NamedCharRef(j).name)
          = EndsInSemicolon(NamedCharRef(i).name)}

Compared(op, i, j) ==
  [op |-> op, index |-> i, other |-> j,
   cmp |-> ByteOrder(NamedCharRef(i).name, NamedCharRef(j).name)]

\* Reading two adjacent entries of the table and comparing their names.
CompareNext ==
  /\ entity.op = "init" /\ ret.op = "init"
  /\ entity.index + 1 \in NamedCharRefs
  /\ entity' = Compared("next", entity.index, entity.index + 1)
  /\ UNCHANGED << cursorVars, treeVars, lookupVars, arenaVars, caret,
                   string_buffer >>

\* Reading an entry and the next entry of its kind and comparing their
\* names.
CompareNextOfKind ==
  /\ entity.op = "init" /\ ret.op = "init"
  /\ LaterOfKind(entity.index) # {}
  /\ entity' = Compared("next_of_kind", entity.index,
                        SetMin(LaterOfKind(entity.index)))
  /\ UNCHANGED << cursorVars, treeVars, lookupVars, arenaVars, caret,
                   string_buffer >>

\* consume_char_ref() on `&` followed by the name of the entry.
ResolveEntity ==
  /\ entity.op = "init"
  /\ ConsumeCharRef

NextEntities == CompareNext \/ CompareNextOfKind \/ ResolveEntity

\* An entry of the table, and as input `&` followed by its name.
InitEntities ==
  /\ entity \in {[NoEntity EXCEPT !.index = i] : i \in NamedCharRefs}
  /\ InitCursor({<<CH_AMP>> \o NamedCharRef(entity.index).name}, {-1})
  /\ InitNoTree
  /\ InitNoLookup
  /\ InitNoArena
  /\ caret = NoCaret
  /\ string_buffer = NoBuffer

SpecEntities == InitEntities /\ [][NextEntities]_vars

\* C24 as stated: the table is strictly sorted, each name strictly greater
\* in byte order than the name of the entry before it.
C24_StrictlySorted ==
  entity.op = "next" => entity.cmp < 0

\* C24, amended: no name occurs twice, because the names that end in `;`
\* are strictly sorted among themselves and so are the names without `;`.
C24_SortedWithinKind ==
  entity.op = "next_of_kind" => entity.cmp < 0

\* `AMP;` compared with `Aacute;`, the next name with `;`, across `AMP`.
C24_Witness ==
  /\ entity.op = "next_of_kind"
  /\ entity.index = 2
  /\ entity.other = 4
  /\ entity.cmp < 0

\* C25: every entry of the table is resolved by a lookup of its own name:
\* consume_char_ref on `&` followed by the name returns the two code points
\* of the entry and leaves the cursor behind the name.
C25_EntryResolvable ==
  (entity.op = "init" /\ ret.op = "consume_char_ref") =>
    /\ ret.first = NamedCharRef(entity.index).first
    /\ ret.second = NamedCharRef(entity.index).second
    /\ iter.start = InputEnd

\* The same for lookups outside attribute values.
EntryResolvableInText ==
  (entity.op = "init" /\ ret.op = "consume_char_ref"
     /\ ~ret.is_in_attribute) =>
    /\ ret.first = NamedCharRef(entity.index).first
    /\ ret.second = NamedCharRef(entity.index).second
    /\ iter.start = InputEnd

---------------------------------------------------------------------------
(* More claims about the arena.                                            *)

\* C31: when malloc() fails to supply a chunk the arena reports it and
\* leaves its list and cursor as they were: it never links, dereferences or
\* hands out memory of a chunk it did not obtain.
C31_AllocatorFailureReported ==
  "null" \notin arena_ret.faults

Overlap(b1, b2) ==
  /\ b1.chunk = b2.chunk
  /\ b1.off < b2.off + b2.size
  /\ b2.off < b1.off + b1.size

\* C40: with requests of 0 < n <= ARENA_CHUNK_SIZE bytes every block
\* returned starts at a multiple of the alignment from the data of its
\* chunk, lies wholly inside the data of one chunk of the arena and is
\* disjoint from every block returned before; arena_free changes nothing.
C40_BlocksAlignedDisjoint ==
  /\ \A p \in Parses :
       /\ \A b \in blocks[p] :
            /\ b.off % ARENA_ALIGNMENT = 0
            /\ b.chunk \in Range(owned[p])
            /\ heap[b.chunk].state = "live"
            /\ 0 <= b.off /\ b.off + b.size <= ARENA_CHUNK_SIZE
       /\ \A b1, b2 \in blocks[p] : Overlap(b1, b2) => b1 = b2
  /\ arena_ret.op = "arena_free" =>
       /\ arenas[arena_ret.parse] = arena_ret.pre
       /\ heap = arena_ret.pre_heap
       /\ gChunksAllocated = arena_ret.count

\* Three blocks in two chunks of one arena, the last one freed.
C40_Witness ==
  /\ arena_ret.op = "arena_free"
  /\ Cardinality(blocks[arena_ret.parse]) = 3
  /\ Len(owned[arena_ret.parse]) = 2

---------------------------------------------------------------------------
(* Progress of the cursor.                                                 *)

\* The cursor is at the end of the input.
AtEof(it) == it.current = EofChar

\* C32: an advance from a state that is not at the end of the input consumes
\* at least one byte and never moves the byte pointer past the end of the
\* input; the cursor is at the end of the input (current = -1) exactly when
\* the byte pointer is, so at most Len(input) advances reach it; an advance
\* made there leaves current, byte pointer, line, column and offset as they
\* were.
C32_CursorProgress ==
  /\ iter.start >= 0
  /\ iter.start <= InputEnd
  /\ AtEof(iter) <=> iter.start = InputEnd
  /\ (ret.op = "next" /\ ~AtEof(ret.pre)) =>
       /\ ret.pre.width >= 1
       /\ iter.start >= ret.pre.start + ret.pre.width
       /\ iter.start > ret.pre.start
  /\ (ret.op = "next" /\ AtEof(ret.pre)) =>
       /\ iter.current = ret.pre.current
       /\ iter.start = ret.pre.start
       /\ iter.pos = ret.pre.pos

\* An advance at the end of an input of at least two bytes whose last
\* character is a TAB.
C32_Witness ==
  /\ ret.op = "next"
  /\ AtEof(ret.pre)
  /\ InputEnd >= 2
  /\ ByteAt(InputEnd - 1) = CH_TAB
  /\ iter.pos.offset = InputEnd

---------------------------------------------------------------------------
(* What consume_char_ref returns against where it leaves the cursor.       *)

\* The cursor is at the byte and the position the call started on.
SameByteAndPosition ==
  /\ iter.start = ret.pre.start
  /\ iter.pos = ret.pre.pos

\* C33: on return from consume_char_ref the first code point is
\* kGumboNoChar if and only if the cursor is back at the `&` (same byte
\* pointer and position); otherwise the cursor is strictly past the `&`; and
\* the second code point is set only when the first is.
C33_NoCharIffAtAmpersand ==
  AfterCharRef =>
    /\ ret.first = kGumboNoChar <=> SameByteAndPosition
    /\ ret.first # kGumboNoChar =>
         /\ iter.start > ret.pre.start
         /\ iter.pos.offset > ret.pre.pos.offset
    /\ ret.second # kGumboNoChar => ret.first # kGumboNoChar

\* The part of C33 that holds: the same statement for every call but those
\* on a numeric reference whose digits exceed 0x10ffff.
NoCharIffAtAmpersandInRange ==
  (NumericRef /\ NumericValue > MaxCodePoint) \/ C33_NoCharIffAtAmpersand

\* The call consumed exactly the name of table entry i and returned its code
\* points.
ConsumedEntry(i) ==
  /\ IsPrefixAt(i, RefStart)
  /\ iter.start = ResumeAt(RefStart + Len(char_ref.entries[i].name))
  /\ ret.first = char_ref.entries[i].first
  /\ ret.second = char_ref.entries[i].second

\* C34: one call of consume_char_ref resolves at most one named reference:
\* when it returns a code point for a name, the bytes consumed after `&` are
\* exactly one table entry and the code points returned are that entry's,
\* also when another entry name follows (`&amp;lt;` gives U+0026 with the
\* cursor behind `amp;`).
C34_OneNamedReference ==
  (/\ AfterCharRef
   /\ ByteAt(RefStart) # CH_HASH
   /\ ret.first # kGumboNoChar) =>
    \E i \in PrefixEntries : ConsumedEntry(i)

---------------------------------------------------------------------------
(* The max_errors option.                                                  *)

\* nothing, or a lone continuation byte, which raises a diagnostic when the
\* cursor is set on it
CappedLeads == { << >>, <<128>> }

\* #  #x  #1  #0;  #128;  #x1;  amp  amp;  lt;  a;  not  notit;
CappedPieces ==
  { <<35>>, <<35, 120>>, <<35, 49>>, <<35, 48, 59>>, <<35, 49, 50, 56, 59>>,
    <<35, 120, 49, 59>>, <<97, 109, 112>>, <<97, 109, 112, 59>>,
    <<108, 116, 59>>, <<97, 59>>, <<110, 111, 116>>,
    <<110, 111, 116, 105, 116, 59>> }

\* a lead, `&`, a piece and a tail: nothing, a lone continuation byte or
\* another `&`
CappedInputs ==
  {lead \o <<CH_AMP>> \o piece \o tail :
     lead \in CappedLeads, piece \in CappedPieces,
     tail \in { << >>, <<128>>, <<CH_AMP>> }}

InitCapped ==
  InitCursor(CappedInputs, -1..MaxCap) /\ InitNoTree /\ InitNoLookup /\ InitNoAux

\* The cursor and the resolver on references that raise diagnostics, under
\* every cap.
SpecCapped == InitCapped /\ [][NextResolver]_vars

\* The run without a cap: the last operation repeated from the iterator it
\* started on with max_errors = -1 and an empty errors vector, so that
\* Uncapped.m.errs are the diagnostics it raises.
UncappedFrom(it) ==
  [it |-> it, errs |-> << >>, raised |-> 0, max_errors |-> -1]

Uncapped ==
  IF ret.op = "init"
    THEN [m |-> utf8iterator_init_with(-1), output |-> NoOutput,
          status |-> TRUE]
  ELSE IF ret.op = "next"
    THEN [m |-> utf8iterator_next(UncappedFrom(ret.pre)),
          output |-> NoOutput, status |-> TRUE]
  ELSE consume_char_ref(UncappedFrom(ret.pre), ret.additional_allowed_char,
                        ret.is_in_attribute, "wrap")

IsPrefix(s, u) == Len(s) <= Len(u) /\ s = SubSeq(u, 1, Len(s))

\* The operation recorded the first diagnostics u raises for as long as none
\* was dropped, in this operation or before it.
RecordedPrefixOf(u) ==
  /\ IsPrefix(NewErrors, u.errs)
  /\ raised = Len(errors) => Len(NewErrors) = Len(u.errs)
  /\ raised - u.raised > ret.pre_errs => NewErrors = << >>

\* C35: max_errors influences nothing but the error list: an operation of the
\* cursor or of consume_char_ref delivers the code points, the success flag
\* and the cursor position it delivers without a cap, and the errors recorded
\* with the cap are a prefix of those recorded without it.
C35_CapOnlyAffectsErrors ==
  ret.op \in {"init", "next", "consume_char_ref"} =>
    /\ iter = Uncapped.m.it
    /\ ret.first = Uncapped.output.first
    /\ ret.second = Uncapped.output.second
    /\ ret.status = Uncapped.status
    /\ RecordedPrefixOf(Uncapped.m)

\* 0x80 `&#128;` with max_errors = 1: the diagnostic for the lead was
\* recorded, the one for the reference is dropped, and the call returns
\* U+20AC with the cursor behind the reference.
C35_Witness ==
  /\ AfterCharRef
  /\ options.max_errors = 1
  /\ ret.pre_errs = 1
  /\ Len(errors) = 1
  /\ Len(Uncapped.m.errs) = 1
  /\ ret.first = 8364
  /\ ~ret.status

---------------------------------------------------------------------------
(* UTF-8 diagnostics and lookahead that is rolled back.                    *)

Utf8Types == {"UTF8_INVALID", "UTF8_TRUNCATED"}

\* C36: each invalid byte sequence of the input gives rise to exactly one
\* UTF-8 diagnostic over a pass across the input, also when it is first read
\* in the lookahead of consume_char_ref and then read again: no two UTF-8
\* diagnostics are for the same bytes, and a call of consume_char_ref that
\* is rolled back to the `&` leaves no UTF-8 diagnostic behind.
C36_OneUtf8Diagnostic ==
  /\ \A i, j \in 1..Len(errors) :
       (/\ i < j
        /\ errors[i].type \in Utf8Types
        /\ errors[j].type \in Utf8Types) =>
         errors[i].original_text # errors[j].original_text
  /\ (AfterCharRef /\ BackAtAmpersand) => ErrorsOfType(Utf8Types) = {}

---------------------------------------------------------------------------
(* Encoding a code point and decoding it again.                            *)

\* The bytes s are in the input from offset p on.
BytesAt(s, p) ==
  /\ p + Len(s) <= InputEnd
  /\ SubSeq(input, p + 1, p + Len(s)) = s

\* The code points the round trip is claimed for, among those of interest.
RoundTripValues ==
  {c \in EncodedValues : c # CH_CR /\ ~utf8_is_invalid_code_point(c)}

\* C37: for every scalar value c that is not CR and not on the invalid list,
\* the cursor reading the bytes gumbo_string_buffer_append_codepoint appends
\* for c delivers c, takes exactly those 1 to 4 bytes as the character and
\* records no diagnostic.
C37_EncodeDecodeRoundTrip ==
  CursorRead =>
    \A c \in RoundTripValues :
      BytesAt(append_codepoint(c), ReadStart) =>
        /\ iter.current = c
        /\ iter.start = ReadStart
        /\ iter.width = Len(append_codepoint(c))
        /\ iter.width \in 1..4
        /\ NewErrors = << >>

\* `a`, then U+10FFFD in four bytes.
C37_Witness ==
  /\ ret.op = "next"
  /\ input = <<97>> \o append_codepoint(1114109)
  /\ iter.current = 1114109
  /\ iter.width = 4
  /\ errors = << >>

---------------------------------------------------------------------------
(* The string buffer (string_buffer.c).  gumbo_parser_allocate and         *)
(* gumbo_set_out_of_memory belong to the parser; they are taken as the     *)
(* specification describes them: an allocation returns a block that is not *)
(* in use, and the out-of-memory condition is a flag of the parse.         *)

kDefaultStringBufferSize == 8

MaxBufferWords == 9  \* words of a chunk in the larger of the two builds
MaxBufferCalls == 4  \* calls on the string buffer in one run

\* ARENA_CHUNK_SIZE of the builds tried: in the larger one a buffer can grow
\* beyond 8 * kDefaultStringBufferSize.
BufferChunkSizes == {ARENA_CHUNK_SIZE, MaxBufferWords * ARENA_ALIGNMENT}

BufferBlocks == 1..3

\* gumbo_parser_allocate(): a block neither the buffer nor the last string
\* returned by it occupies.
gumbo_parser_allocate(b) ==
  SetMin({p \in BufferBlocks : p # b.ptr /\ p # b.result.ptr})

gumbo_set_out_of_memory(b) == [b EXCEPT !.out_of_memory = TRUE]

\* The while loop of maybe_resize_string_buffer.
RECURSIVE doubled_capacity(_, _)
doubled_capacity(new_capacity, new_length) ==
  IF new_capacity < new_length
    THEN doubled_capacity(new_capacity * 2, new_length)
    ELSE new_capacity

\* The allocation and copy at the end of maybe_resize_string_buffer.
reallocated(b, new_capacity) ==
  [b |-> [b EXCEPT !.ptr = gumbo_parser_allocate(b),
                   !.data = SubSeq(@, 1, b.length),
                   !.capacity = new_capacity],
   ok |-> TRUE]

\* maybe_resize_string_buffer after its loop.
resized(b, new_capacity) ==
  IF new_capacity = b.capacity THEN [b |-> b, ok |-> TRUE]
  ELSE IF new_capacity > b.chunk_size
    THEN IF b.capacity = b.chunk_size
           THEN [b |-> gumbo_set_out_of_memory(b), ok |-> FALSE]
           ELSE reallocated(b, b.chunk_size)
  ELSE reallocated(b, new_capacity)

\* additional_chars is a size_t: a negative number here stands for the value
\* that wraps back when it is added to the length.
maybe_resize_string_buffer(b, additional_chars) ==
  resized(b, doubled_capacity(b.capacity, b.length + additional_chars))

\* The bytes written from data[length] on; a write beyond the capacity is
\* outside the block.
stored(b, bytes) ==
  [b EXCEPT !.data = SubSeq(@, 1, b.length) \o bytes,
            !.length = @ + Len(bytes),
            !.faults = IF b.length + Len(bytes) > b.capacity
                         THEN @ \cup {"overflow"} ELSE @]

\* ENSURE_CAPACITY_OR_RETURN and the writes after it: r is what
\* maybe_resize_string_buffer returned.
appended(r, bytes) == IF r.ok THEN stored(r.b, bytes) ELSE r.b

gumbo_string_buffer_init(b) ==
  [b EXCEPT !.ptr = gumbo_parser_allocate(b), !.data = << >>,
            !.length = 0, !.capacity = kDefaultStringBufferSize]

gumbo_string_buffer_reserve(b, min_capacity) ==
  maybe_resize_string_buffer(b, min_capacity - b.length).b

gumbo_string_buffer_append_codepoint(b, c) ==
  appended(maybe_resize_string_buffer(b, Len(append_codepoint(c))),
           append_codepoint(c))

gumbo_string_buffer_append_string(b, str) ==
  appended(maybe_resize_string_buffer(b, Len(str)), str)

\* gumbo_string_buffer_to_string after maybe_resize_string_buffer returned
\* r: the NUL is written at data[length], or over the last byte.
terminated(r) ==
  gumbo_string_buffer_init(
    [r.b EXCEPT !.result =
       [ptr |-> r.b.ptr,
        data |-> SubSeq(r.b.data, 1,
                        IF r.ok THEN r.b.length ELSE r.b.length - 1)
                   \o <<0>>],
                !.faults = IF r.ok /\ r.b.length >= r.b.capacity
                             THEN @ \cup {"overflow"} ELSE @])

gumbo_string_buffer_to_string(b) ==
  terminated(maybe_resize_string_buffer(b, b.length + 1))

\* gumbo_string_buffer_destroy(): gumbo_parser_deallocate does nothing in an
\* arena.
gumbo_string_buffer_destroy(b) == b

gumbo_string_buffer_clear(b) ==
  IF b.capacity > kDefaultStringBufferSize * 8
    THEN gumbo_string_buffer_init(
           gumbo_string_buffer_destroy([b EXCEPT !.length = 0]))
    ELSE [b EXCEPT !.length = 0, !.data = << >>]

BufferFields(b) ==
  [ptr |-> b.ptr, data |-> b.data, length |-> b.length,
   capacity |-> b.capacity]

\* The caller after the call op with argument arg returned b.
BufferReturns(op, arg, b) ==
  /\ string_buffer' = [b EXCEPT !.op = op, !.arg = arg,
                                !.calls = string_buffer.calls + 1,
                                !.pre = BufferFields(string_buffer)]
  /\ UNCHANGED << cursorVars, treeVars, lookupVars, arenaVars, entity, caret >>

\* The buffer was set up and the parse goes on.
BufferInUse ==
  /\ string_buffer.op # "none"
  /\ ~string_buffer.out_of_memory
  /\ string_buffer.faults = {}
  /\ string_buffer.calls < MaxBufferCalls

\* The code points appended: one to four bytes.
BufferCodepoints == {120, 233, 8364, 65536}

\* The strings appended: `x` repeated.
Repeated(n) == [i \in 1..n |-> 120]

BufferLengths(cs) == {0, 7, cs - 1, cs, cs + 1}

StringBufferInit ==
  /\ string_buffer.calls < MaxBufferCalls
  /\ ~string_buffer.out_of_memory
  /\ string_buffer.faults = {}
  /\ IF string_buffer.op = "none"
       THEN \E cs \in BufferChunkSizes :
              BufferReturns("init", 0,
                gumbo_string_buffer_init(
                  [string_buffer EXCEPT !.chunk_size = cs]))
       ELSE BufferReturns("init", 0, gumbo_string_buffer_init(string_buffer))

StringBufferAppendCodepoint ==
  /\ BufferInUse
  /\ \E c \in BufferCodepoints :
       BufferReturns("append_codepoint", Len(append_codepoint(c)),
                     gumbo_string_buffer_append_codepoint(string_buffer, c))

StringBufferAppendString ==
  /\ BufferInUse
  /\ \E n \in BufferLengths(string_buffer.chunk_size) :
       BufferReturns("append_string", n,
                     gumbo_string_buffer_append_string(string_buffer,
                                                       Repeated(n)))

StringBufferReserve ==
  /\ BufferInUse
  /\ \E n \in BufferLengths(string_buffer.chunk_size) :
       BufferReturns("reserve", n,
                     gumbo_string_buffer_reserve(string_buffer, n))

StringBufferToString ==
  /\ BufferInUse
  /\ BufferReturns("to_string", 0,
                   gumbo_string_buffer_to_string(string_buffer))

StringBufferClear ==
  /\ BufferInUse
  /\ BufferReturns("clear", 0, gumbo_string_buffer_clear(string_buffer))

NextStringBuffer ==
  \/ StringBufferInit
  \/ StringBufferAppendCodepoint
  \/ StringBufferAppendString
  \/ StringBufferReserve
  \/ StringBufferToString
  \/ StringBufferClear

SpecStringBuffer == InitArenaOnly /\ [][NextStringBuffer]_vars

\* C38: after any sequence of init, append_codepoint, append_string, reserve
\* and clear calls 0 <= length <= capacity <= ARENA_CHUNK_SIZE holds and no
\* byte is written beyond the capacity; an append that cannot fit within
\* ARENA_CHUNK_SIZE is ignored (length and contents unchanged) and raises the
\* out-of-memory condition.
C38_BufferWithinCapacity ==
  /\ string_buffer.op # "none" =>
       /\ 0 <= string_buffer.length
       /\ string_buffer.length <= string_buffer.capacity
       /\ string_buffer.capacity <= string_buffer.chunk_size
       /\ "overflow" \notin string_buffer.faults
  /\ (/\ string_buffer.op \in {"append_codepoint", "append_string"}
      /\ string_buffer.pre.length + string_buffer.arg
           > string_buffer.chunk_size) =>
       /\ string_buffer.out_of_memory
       /\ string_buffer.length = string_buffer.pre.length
       /\ string_buffer.data = string_buffer.pre.data

\* C39: gumbo_string_buffer_to_string on a buffer with length + 1 <=
\* ARENA_CHUNK_SIZE returns the `length` bytes of the buffer followed by a
\* NUL without raising the out-of-memory condition, and leaves the buffer
\* empty, with the default capacity, in storage of its own.
C39_ToStringTerminates ==
  (/\ string_buffer.op = "to_string"
   /\ string_buffer.pre.length + 1 <= string_buffer.chunk_size) =>
    /\ string_buffer.result.data =
         SubSeq(string_buffer.pre.data, 1, string_buffer.pre.length) \o <<0>>
    /\ ~string_buffer.out_of_memory
    /\ string_buffer.length = 0
    /\ string_buffer.capacity = kDefaultStringBufferSize
    /\ string_buffer.ptr # string_buffer.result.ptr

=============================================================================
